---- MODULE Spec2Model ----
(***************************************************************************)
(* Model of the role-gated admin workflow engine of the quiz bot:          *)
(*   - AuthMiddleware (core/middleware/auth_middleware.py)                 *)
(*   - AdminRouter registration and dispatch                               *)
(*     (core/routers/admin_panel/admin_router.py)                          *)
(*   - UsersManagerService / PlayersManagerService handlers                *)
(*   - DatabaseUserHandler / DatabaseQuizPlayerHandler over _execute       *)
(*                                                                         *)
(* Strings are modelled as sequences of "_"-separated (callback payloads)  *)
(* or whitespace-separated (message texts) tokens, so that startswith,     *)
(* split and int() are computed as the code computes them.                 *)
(***************************************************************************)
EXTENDS Integers, Sequences, FiniteSets, TLC

VARIABLES
    users,      \* rows of table "users", in insertion (rowid) order
    players,    \* rows of the quiz players table, in insertion order
    nextPid,    \* next player_id the storage assigns
    uniqueIdx,  \* whether the configured schema (not in the sources) declares
                \* user_id / (first_name, last_name) unique
    state,      \* FSM state per conversation (MemoryStorage), None = no state
    data,       \* FSM scratch data per conversation (MemoryStorage)
    pc,         \* per conversation: position of the handler in flight
    ctx,        \* per conversation: local variables of the handler in flight
    lastEv,     \* history: the last inbound event with the middleware's verdict on
                \* it and the handler's answer, or the last step of a handler
    nEvents,    \* number of inbound events delivered so far
    locale      \* the locale module under construction: its loaded data, the
                \* values processed so far and the call stack of _expand_value

vars == <<users, players, nextPid, uniqueIdx, state, data, pc, ctx, lastEv, nEvents,
          locale>>

----------------------------------------------------------------------------
(* Bounds of the model *)

MaxEvents == 3          \* inbound events per run, user-management flows
MaxRaceEvents == 6      \* inbound events per run, two concurrent add-user flows
MaxPlayerEvents == 5    \* inbound events per run, player-management flows
MaxPlayerRaceEvents == 10  \* inbound events per run, two concurrent add-player flows
MaxFlowEvents == 4      \* inbound events per run, navigation through both flows
MaxAddPlayerEvents == 5 \* inbound events per run, one add-player flow
MaxRosterCalls == 3     \* calls of the player handler's update operations per run
MaxGames == 80          \* largest games-played value entered
MaxOverlapEvents == 5   \* inbound events per run, one conversation with overlapping updates
MaxRoleEvents == 5      \* inbound events per run, one admin pressing role buttons
MaxDepth == 6           \* frames of _expand_value the interpreter's recursion limit allows
MaxUserRows == 4
MaxPlayerRows == 3

(* Identities: user ids; AdminIds is Config().data.admin_ids, registered by
   EngineBot._init_admins before polling starts. *)
Ids == {1, 2, 3}
AdminIds == {1}
Senders == {1, 2}

None == "None"
ADMIN == "admin"
USER == "user"
Roles == {ADMIN, USER}

(* ErrorCode *)
SUCCESSFUL == "SUCCESSFUL"
FAILED_ERROR == "FAILED_ERROR"
USER_ALREADY_EXISTS == "USER_ALREADY_EXISTS"
INVALID_INPUT == "INVALID_INPUT"

(* AdminStates *)
waiting_for_user_input == "waiting_for_user_input"
waiting_for_role == "waiting_for_role"
waiting_for_delete_confirmation == "waiting_for_delete_confirmation"
waiting_for_player_name == "waiting_for_player_name"
waiting_for_player_nickname == "waiting_for_player_nickname"
waiting_for_player_photo == "waiting_for_player_photo"
waiting_for_player_games == "waiting_for_player_games"

----------------------------------------------------------------------------
(* Generic helpers *)

RECURSIVE SelectSeq2(_, _, _)
\* rows of tbl (from index i on) whose user_id is id, in rowid order
SelectSeq2(tbl, id, i) ==
    IF i > Len(tbl) THEN <<>>
    ELSE IF tbl[i].user_id = id THEN <<tbl[i]>> \o SelectSeq2(tbl, id, i + 1)
    ELSE SelectSeq2(tbl, id, i + 1)

\* the empty scratch map
EmptyData == [k \in {} |-> None]

\* dict.get(key) with default None
Get(d, k) == IF k \in DOMAIN d THEN d[k] ELSE None

\* FSMContext.update_data(**kv)
UpdateData(d, kv) ==
    [k \in (DOMAIN d) \cup (DOMAIN kv) |-> IF k \in DOMAIN kv THEN kv[k] ELSE d[k]]

----------------------------------------------------------------------------
(* DatabaseUserHandler over BaseDatabaseHandler._execute.  _execute returns
   None on any error; `ok` says whether the statement ran without error. *)

UserRows(tbl, id) == SelectSeq2(tbl, id, 1)

\* SELECT 1 FROM users WHERE user_id = ?  ->  bool(result)
UserExists(tbl, id, ok) == ok /\ Len(UserRows(tbl, id)) > 0

\* SELECT role ... ; None when no row or on error, else UserRole(result[0].role)
GetUserRole(tbl, id, ok) ==
    IF ~ok \/ Len(UserRows(tbl, id)) = 0 THEN None ELSE UserRows(tbl, id)[1].role

\* ground truth used by the properties: the stored role of id, None if absent
RECURSIVE RowsFromId(_, _)
\* the rows of tbl with user_id >= id, ORDER BY user_id
RowsFromId(tbl, id) ==
    IF \A i \in DOMAIN tbl : tbl[i].user_id < id THEN <<>>
    ELSE UserRows(tbl, id) \o RowsFromId(tbl, id + 1)

\* get_all_users: SELECT ... ORDER BY user_id; [] when the query fails
GetAllUsers(tbl, ok) == IF ok THEN RowsFromId(tbl, 0) ELSE <<>>

StoredRole(tbl, id) == GetUserRole(tbl, id, TRUE)
Registered(tbl, id) == UserExists(tbl, id, TRUE)

----------------------------------------------------------------------------
(* AuthMiddleware.__call__ for an event that carries a sender.
   flag is the role the target handler declares (get_flag(data, "role")),
   None when it declares none.  Outcomes:
     "not_registered"  return None after the "not registered" notice
     "no_rights"       return None after the "insufficient privileges" notice
     "raised"          user_role.value on a None role raises while logging
     "invoked"         handler(event, data) is called                        *)
GateMutRoleIgnored(tbl, id, flag, existsOk, roleOk) ==
    IF ~UserExists(tbl, id, existsOk)
    THEN [outcome |-> "not_registered", role |-> None]
    ELSE [outcome |-> "invoked", role |-> GetUserRole(tbl, id, roleOk)]

GateMutNoExistsCheck(tbl, id, flag, existsOk, roleOk) ==
    LET r == GetUserRole(tbl, id, roleOk) IN
    IF flag # None /\ r # flag
    THEN [outcome |-> IF r = None THEN "raised" ELSE "no_rights", role |-> r]
    ELSE [outcome |-> "invoked", role |-> r]

Gate(tbl, id, flag, existsOk, roleOk) ==
    IF ~UserExists(tbl, id, existsOk)
    THEN [outcome |-> "not_registered", role |-> None]
    ELSE LET r == GetUserRole(tbl, id, roleOk) IN
         IF flag # None /\ r # flag
         THEN [outcome |-> IF r = None THEN "raised" ELSE "no_rights", role |-> r]
         ELSE [outcome |-> "invoked", role |-> r]

\* a middleware that puts the sender-less event through the same checks
AuthMiddlewareMutChecksAll(tbl, id, flag, existsOk, roleOk) ==
    Gate(tbl, id, flag, existsOk, roleOk)

\* AuthMiddleware.__call__ for any event: id = 0 stands for an event whose
\* data["event_from_user"] is None; the handler is then called at once, no
\* lookup is made and data["user_role"] is not set
AuthMiddleware(tbl, id, flag, existsOk, roleOk) ==
    IF id = 0 THEN [outcome |-> "invoked", role |-> None]
    ELSE Gate(tbl, id, flag, existsOk, roleOk)

----------------------------------------------------------------------------
(* Strings.  A callback payload is the sequence of its "_"-separated tokens
   ("delete_user_2" is <<"delete", "user", "2">>), a message text the sequence
   of its whitespace-separated tokens.                                       *)

IdTok(i) == ToString(i)

\* int(s): ok is FALSE where Python raises ValueError
ParseInt(tok) ==
    IF \E n \in -1 .. MaxGames : ToString(n) = tok
    THEN [ok |-> TRUE, val |-> CHOOSE n \in -1 .. MaxGames : ToString(n) = tok]
    ELSE [ok |-> FALSE, val |-> 0]

\* data.split("_")[i] (0-based i); IndexError/ValueError alike fail int()
SplitAt(p, i) == IF i + 1 <= Len(p) THEN p[i + 1] ELSE "IndexError"

\* F.data == "<tokens joined by _>"
DataEq(p, toks) == p = toks

\* F.data.startswith("<pre joined by _>_")
StartsWith(p, pre) == Len(p) > Len(pre) /\ SubSeq(p, 1, Len(pre)) = pre

\* F.data.startswith("<pre joined by _>") where the prefix has no trailing "_"
StartsWithBare(p, pre) == Len(p) >= Len(pre) /\ SubSeq(p, 1, Len(pre)) = pre

\* ' '.join(parts)
RECURSIVE Join(_)

\* a join that keeps the first part only
JoinMutFirstOnly(parts) == IF Len(parts) = 0 THEN "" ELSE parts[1]

Join(parts) ==
    IF Len(parts) = 0 THEN ""
    ELSE IF Len(parts) = 1 THEN parts[1]
    ELSE parts[1] \o " " \o Join(Tail(parts))

----------------------------------------------------------------------------
(* Inbound events (aiogram Message / CallbackQuery), reduced to the fields the
   handlers read. *)

NoFwd == [id |-> 0, username |-> "", first_name |-> "", last_name |-> ""]

Msg(text, hasText, fwd, photo) ==
    [kind |-> "message", text |-> text, hasText |-> hasText, fwd |-> fwd,
     photo |-> photo, data |-> <<>>]

Cb(p) ==
    [kind |-> "callback", text |-> <<>>, hasText |-> FALSE, fwd |-> NoFwd,
     photo |-> FALSE, data |-> p]

\* the profiles a forwarded message's original sender may carry
Profiles == { [username |-> "ann", first_name |-> "Ann", last_name |-> "Lee"] }

AdminCmd == Msg(<<"/admin">>, TRUE, NoFwd, FALSE)

Texts == { <<"Ann", "Lee">>, <<"Ann">>, <<"30">>, <<"-1">> }

TextMsgs == { Msg(t, TRUE, NoFwd, FALSE) : t \in Texts }

PhotoMsg == Msg(<<>>, FALSE, NoFwd, TRUE)

\* the ids the payloads and forwards of the runs refer to: the configured
\* admin and a third party
TargetIds == {1, 3}

Fwd(i, p) ==
    Msg(<<"hello">>, TRUE,
        [id |-> i, username |-> p.username, first_name |-> p.first_name,
         last_name |-> p.last_name], FALSE)

TargetForwards == { Fwd(i, p) : i \in TargetIds, p \in Profiles }

UserPayloads ==
    { <<"back", "to", "admin">>, <<"cancel", "operation">>,
      <<"manage", "users", "cmd">>, <<"add", "user", "cmd">>,
      <<"users", "list", "cmd">>, <<"delete", "users", "cmd">>,
      <<"role", "user">>, <<"role", "admin">>,
      <<"cancel", "delete", "user">> }
    \cup { <<"delete", "user", IdTok(i)>> : i \in TargetIds }
    \cup { <<"confirm", "delete", "user", IdTok(i)>> : i \in TargetIds }
    \cup { <<"confirm", "delete", IdTok(i)>> : i \in {3} }

PlayerPayloads ==
    { <<"manage", "players", "cmd">>, <<"add", "player", "cmd">>,
      <<"players", "list", "cmd">>, <<"delete", "players", "cmd">>,
      <<"cancel", "player", "operation">>, <<"cancel", "delete", "player">>,
      <<"skip", "photo">>, <<"skip", "nickname">>, <<"cancel", "operation">> }
    \cup { <<"delete", "player", IdTok(i)>> : i \in {1} }
    \cup { <<"confirm", "delete", "player", IdTok(i)>> : i \in {1} }

UserEvents == {AdminCmd} \cup TargetForwards \cup { Cb(p) : p \in UserPayloads }
                \cup { Msg(<<"Ann">>, TRUE, NoFwd, FALSE) }

PlayerEvents == TextMsgs \cup {PhotoMsg} \cup { Cb(p) : p \in PlayerPayloads }

\* two admins' worth of one add-user flow for the same third party
UserRaceEvents ==
    { Cb(<<"add", "user", "cmd">>), Cb(<<"role", "user">>), Cb(<<"role", "admin">>) }
    \cup { Fwd(3, p) : p \in Profiles }

\* one add-player flow for one name, all optional steps skipped
PlayerRaceEvents ==
    { Cb(<<"add", "player", "cmd">>), Cb(<<"skip", "nickname">>), Cb(<<"skip", "photo">>),
      Msg(<<"Ann", "Lee">>, TRUE, NoFwd, FALSE), Msg(<<"30">>, TRUE, NoFwd, FALSE) }

\* what it takes to walk a conversation into each FSM state and to press the
\* buttons shown there: the entries of both flows, the cancel buttons, the two
\* buttons of the delete-user confirmation keyboard, and the payloads the
\* confirm handler is registered for (for a stored and for an absent id), and
\* the confirm button of the delete-player keyboard
FlowEvents ==
    { Cb(<<"add", "user", "cmd">>), Cb(<<"delete", "user", "2">>),
      Cb(<<"add", "player", "cmd">>), Cb(<<"skip", "nickname">>), Cb(<<"skip", "photo">>),
      Cb(<<"back", "to", "admin">>), Cb(<<"cancel", "operation">>),
      Cb(<<"cancel", "player", "operation">>),
      Cb(<<"confirm", "delete", "2">>), Cb(<<"cancel", "delete", "2">>),
      Cb(<<"confirm", "delete", "user", "2">>), Cb(<<"confirm", "delete", "user", "3">>),
      Cb(<<"confirm", "delete", "player", "1">>),
      Msg(<<"Ann", "Lee">>, TRUE, NoFwd, FALSE) }
    \cup { Fwd(3, p) : p \in Profiles }

\* a games-played entry for every value up to MaxGames
GamesMsgs == { Msg(<<ToString(g)>>, TRUE, NoFwd, FALSE) : g \in 0 .. MaxGames }

\* one add-player flow with every choice at its optional steps: a two- or
\* three-token name, a nickname or none, a photo or none
AddPlayerEvents ==
    PlayerRaceEvents \cup { PhotoMsg, Msg(<<"Ann", "Lee", "Ray">>, TRUE, NoFwd, FALSE),
                            Cb(<<"role", "user">>), AdminCmd }

AllEvents == UserEvents \cup PlayerEvents \cup FlowEvents \cup AddPlayerEvents \cup GamesMsgs

----------------------------------------------------------------------------
(* AdminRouter._register_handlers: the dispatch table.  Within a router the
   first registered handler whose filter matches is the one called; "none"
   when no filter matches (the update is left unhandled).                    *)

\* a message observer that tries the state-bound handlers before /admin
MessageHandlerMutStateFirst(ev, st) ==
    IF st = waiting_for_user_input THEN "process_user_input"
    ELSE IF st = waiting_for_player_nickname THEN "process_player_nickname_input"
    ELSE IF st = waiting_for_player_name THEN "process_player_name_input"
    ELSE IF st = waiting_for_player_photo THEN "process_player_photo_input"
    ELSE IF st = waiting_for_player_games THEN "process_player_games_input"
    ELSE IF ev.hasText /\ ev.text[1] = "/admin" THEN "_admin_panel"
    ELSE "none"

MessageHandler(ev, st) ==
    IF ev.hasText /\ ev.text[1] = "/admin" THEN "_admin_panel"
    ELSE IF st = waiting_for_user_input THEN "process_user_input"
    ELSE IF st = waiting_for_player_nickname THEN "process_player_nickname_input"
    ELSE IF st = waiting_for_player_name THEN "process_player_name_input"
    ELSE IF st = waiting_for_player_photo THEN "process_player_photo_input"
    ELSE IF st = waiting_for_player_games THEN "process_player_games_input"
    ELSE "none"

CallbackHandler(p) ==
    IF DataEq(p, <<"back", "to", "admin">>) THEN "_back_to_admin_panel"
    ELSE IF DataEq(p, <<"cancel", "operation">>) THEN "_cancel_operation"
    ELSE IF DataEq(p, <<"manage", "users", "cmd">>) THEN "manage_users_panel"
    ELSE IF DataEq(p, <<"add", "user", "cmd">>) THEN "add_user_callback"
    ELSE IF DataEq(p, <<"users", "list", "cmd">>) THEN "users_list_callback"
    ELSE IF DataEq(p, <<"delete", "users", "cmd">>) THEN "delete_users_callback"
    ELSE IF StartsWith(p, <<"role">>) THEN "process_role_callback"
    ELSE IF StartsWith(p, <<"delete", "user">>) THEN "delete_user_callback"
    ELSE IF StartsWith(p, <<"confirm", "delete", "user">>) THEN "confirm_delete_callback"
    ELSE IF StartsWithBare(p, <<"cancel", "delete", "user">>) THEN "cancel_delete_callback"
    ELSE IF DataEq(p, <<"manage", "players", "cmd">>) THEN "manage_players_panel"
    ELSE IF DataEq(p, <<"add", "player", "cmd">>) THEN "add_player_callback"
    ELSE IF DataEq(p, <<"players", "list", "cmd">>) THEN "players_list_callback"
    ELSE IF DataEq(p, <<"delete", "players", "cmd">>) THEN "delete_players_callback"
    ELSE IF DataEq(p, <<"cancel", "player", "operation">>) THEN "cancel_operation"
    ELSE IF StartsWith(p, <<"delete", "player">>) THEN "delete_player_callback"
    ELSE IF StartsWith(p, <<"confirm", "delete", "player">>) THEN "confirm_delete_player_callback"
    ELSE IF DataEq(p, <<"cancel", "delete", "player">>) THEN "cancel_delete_player_callback"
    ELSE IF DataEq(p, <<"skip", "photo">>) THEN "skip_photo_callback"
    ELSE IF DataEq(p, <<"skip", "nickname">>) THEN "skip_nickname_callback"
    ELSE "none"

Dispatch(ev, st) ==
    IF ev.kind = "message" THEN MessageHandler(ev, st) ELSE CallbackHandler(ev.data)

\* the registrations of AdminRouter, in the order the router.message(...) and
\* router.callback_query(...) calls are made
Registrations ==
    << [h |-> "_admin_panel", kind |-> "message"],
       [h |-> "_back_to_admin_panel", kind |-> "callback"],
       [h |-> "_cancel_operation", kind |-> "callback"],
       [h |-> "manage_users_panel", kind |-> "callback"],
       [h |-> "process_user_input", kind |-> "message"],
       [h |-> "add_user_callback", kind |-> "callback"],
       [h |-> "users_list_callback", kind |-> "callback"],
       [h |-> "delete_users_callback", kind |-> "callback"],
       [h |-> "process_role_callback", kind |-> "callback"],
       [h |-> "delete_user_callback", kind |-> "callback"],
       [h |-> "confirm_delete_callback", kind |-> "callback"],
       [h |-> "cancel_delete_callback", kind |-> "callback"],
       [h |-> "manage_players_panel", kind |-> "callback"],
       [h |-> "add_player_callback", kind |-> "callback"],
       [h |-> "players_list_callback", kind |-> "callback"],
       [h |-> "delete_players_callback", kind |-> "callback"],
       [h |-> "cancel_operation", kind |-> "callback"],
       [h |-> "delete_player_callback", kind |-> "callback"],
       [h |-> "confirm_delete_player_callback", kind |-> "callback"],
       [h |-> "cancel_delete_player_callback", kind |-> "callback"],
       [h |-> "skip_photo_callback", kind |-> "callback"],
       [h |-> "skip_nickname_callback", kind |-> "callback"],
       [h |-> "process_player_nickname_input", kind |-> "message"],
       [h |-> "process_player_name_input", kind |-> "message"],
       [h |-> "process_player_photo_input", kind |-> "message"],
       [h |-> "process_player_games_input", kind |-> "message"] >>

\* the filter handler h was registered with, on event ev in FSM state st
FilterMatches(h, ev, st) ==
    CASE h = "_admin_panel" -> ev.hasText /\ ev.text[1] = "/admin"
      [] h = "_back_to_admin_panel" -> DataEq(ev.data, <<"back", "to", "admin">>)
      [] h = "_cancel_operation" -> DataEq(ev.data, <<"cancel", "operation">>)
      [] h = "manage_users_panel" -> DataEq(ev.data, <<"manage", "users", "cmd">>)
      [] h = "process_user_input" -> st = waiting_for_user_input
      [] h = "add_user_callback" -> DataEq(ev.data, <<"add", "user", "cmd">>)
      [] h = "users_list_callback" -> DataEq(ev.data, <<"users", "list", "cmd">>)
      [] h = "delete_users_callback" -> DataEq(ev.data, <<"delete", "users", "cmd">>)
      [] h = "process_role_callback" -> StartsWith(ev.data, <<"role">>)
      [] h = "delete_user_callback" -> StartsWith(ev.data, <<"delete", "user">>)
      [] h = "confirm_delete_callback" -> StartsWith(ev.data, <<"confirm", "delete", "user">>)
      [] h = "cancel_delete_callback" -> StartsWithBare(ev.data, <<"cancel", "delete", "user">>)
      [] h = "manage_players_panel" -> DataEq(ev.data, <<"manage", "players", "cmd">>)
      [] h = "add_player_callback" -> DataEq(ev.data, <<"add", "player", "cmd">>)
      [] h = "players_list_callback" -> DataEq(ev.data, <<"players", "list", "cmd">>)
      [] h = "delete_players_callback" -> DataEq(ev.data, <<"delete", "players", "cmd">>)
      [] h = "cancel_operation" -> DataEq(ev.data, <<"cancel", "player", "operation">>)
      [] h = "delete_player_callback" -> StartsWith(ev.data, <<"delete", "player">>)
      [] h = "confirm_delete_player_callback" ->
            StartsWith(ev.data, <<"confirm", "delete", "player">>)
      [] h = "cancel_delete_player_callback" -> DataEq(ev.data, <<"cancel", "delete", "player">>)
      [] h = "skip_photo_callback" -> DataEq(ev.data, <<"skip", "photo">>)
      [] h = "skip_nickname_callback" -> DataEq(ev.data, <<"skip", "nickname">>)
      [] h = "process_player_nickname_input" -> st = waiting_for_player_nickname
      [] h = "process_player_name_input" -> st = waiting_for_player_name
      [] h = "process_player_photo_input" -> st = waiting_for_player_photo
      [] h = "process_player_games_input" -> st = waiting_for_player_games

\* the positions in Registrations of the handlers of ev's kind whose filter
\* matches
Matching(ev, st) ==
    { i \in DOMAIN Registrations :
        /\ Registrations[i].kind = ev.kind
        /\ FilterMatches(Registrations[i].h, ev, st) }

\* the role a handler declares through flags at registration: none does
HandlerFlag(h) == None

----------------------------------------------------------------------------
(* Player levels (DatabaseQuizPlayerHandler).  PlayersManagerService calls them
   calculate_level_from_games / calculate_rank_player_from_games and passes the
   results to add_player as level / rank_player.                              *)

BEGINNER == "beginner"
INTERMEDIATE == "intermediate"
ADVANCED == "advanced"
EXPERT == "expert"

\* games_played // 5
CalculateLevel(g) == g \div 5

\* a tier function whose last boundary is one step late (expert from 100)
CalculateRankMutLateExpert(g) ==
    LET tier == g \div 25 IN
    IF tier > 3 THEN EXPERT
    ELSE IF tier = 2 THEN ADVANCED
    ELSE IF tier = 1 THEN INTERMEDIATE
    ELSE BEGINNER

\* tier from games_played // 25
CalculateRank(g) ==
    LET tier == g \div 25 IN
    IF tier >= 3 THEN EXPERT
    ELSE IF tier = 2 THEN ADVANCED
    ELSE IF tier = 1 THEN INTERMEDIATE
    ELSE BEGINNER

\* SELECT player_id FROM players WHERE first_name = ? AND last_name = ?
PlayerNamed(tbl, first, last, ok) ==
    ok /\ \E i \in DOMAIN tbl : tbl[i].first_name = first /\ tbl[i].last_name = last

\* SELECT * FROM players WHERE player_id = ?
PlayerFound(tbl, pid, ok) == ok /\ \E i \in DOMAIN tbl : tbl[i].player_id = pid

----------------------------------------------------------------------------
(* Handlers.  Each operator gives the effect of a handler on its own
   conversation up to its first database write: the new FSM state and scratch
   data, where the handler continues (pc, ctx) and what it told the user.    *)

IdleCtx ==
    [h |-> "none", payload |-> <<>>, target |-> 0, role |-> None, exists |-> FALSE,
     username |-> None, first_name |-> None, last_name |-> None,
     nickname |-> None, photo |-> None, games |-> 0, level |-> 0, rank |-> None,
     senderRole |-> None]

GetId(d, k) == IF k \in DOMAIN d THEN d[k] ELSE 0

Eff(st, d, res) == [st |-> st, d |-> d, pc |-> "idle", ctx |-> IdleCtx, res |-> res]
Keep(c, res) == Eff(state[c], data[c], res)
\* FSMContext.clear(): state and data are both dropped
Clear(res) == Eff(None, EmptyData, res)
Continue(c, at, cx, res) ==
    [st |-> state[c], d |-> data[c], pc |-> at, ctx |-> cx, res |-> res]

\* AdminRouter._admin_panel / _is_admin: the only place a handler checks the role
AdminPanel(c, roleOk) ==
    IF GetUserRole(users, c, roleOk) = ADMIN THEN "admin_panel" ELSE "access_denied"

\* a role parse that makes an admin only of the token "admin"
ParseRoleMutAdminOnly(p) == IF SplitAt(p, 1) = "admin" THEN ADMIN ELSE USER

\* role_str = callback.data.split("_")[1]; USER iff "user", ADMIN otherwise
ParseRole(p) == IF SplitAt(p, 1) = "user" THEN USER ELSE ADMIN

\* UsersManagerService.process_role_callback up to the add_user call
\* a role selection that answers the lost session but stays in the flow
ProcessRoleCallbackMutKeepsState(c, ev) ==
    LET uid == GetId(data[c], "user_id") IN
    IF uid = 0 THEN Keep(c, "session_lost")
    ELSE Continue(c, "au_exists",
                  [IdleCtx EXCEPT !.h = "process_role_callback", !.target = uid,
                                  !.role = ParseRole(ev.data),
                                  !.username = Get(data[c], "username"),
                                  !.first_name = Get(data[c], "first_name"),
                                  !.last_name = Get(data[c], "last_name")],
                  "add_user_called")

ProcessRoleCallback(c, ev) ==
    LET uid == GetId(data[c], "user_id") IN
    IF uid = 0 THEN Clear("session_lost")
    ELSE Continue(c, "au_exists",
                  [IdleCtx EXCEPT !.h = "process_role_callback", !.target = uid,
                                  !.role = ParseRole(ev.data),
                                  !.username = Get(data[c], "username"),
                                  !.first_name = Get(data[c], "first_name"),
                                  !.last_name = Get(data[c], "last_name")],
                  "add_user_called")

\* UsersManagerService.delete_user_callback: int(callback.data.split("_")[2])
DeleteUserCallback(c, ev, existsOk, roleOk) ==
    LET r == ParseInt(SplitAt(ev.data, 2)) IN
    IF ~r.ok THEN Keep(c, "error_selected_user_delete")
    ELSE IF ~UserExists(users, r.val, existsOk) THEN Keep(c, "error_user_not_found")
    ELSE LET role == GetUserRole(users, r.val, roleOk)
             d2 == UpdateData(data[c], [delete_user_id |-> r.val])
         IN  IF role = ADMIN THEN Keep(c, "warning_delete_admin")
             \* user_role.value on None raises after update_data, before set_state
             ELSE IF role = None THEN Eff(state[c], d2, "error_selected_user_delete")
             ELSE Eff(waiting_for_delete_confirmation, d2, "confirm_delete_desc")

\* UsersManagerService.handle_forwarded_message, the branch for a known id
ForwardKnown(c, ev) == Keep(c, "warning_user_is_exists")

\* an input step that drops the flow on a message that is not forwarded
ProcessUserInputMutClears(c, ev, existsOk) ==
    IF ev.fwd.id = 0 THEN Clear("error_input_forward_msg")
    ELSE IF UserExists(users, ev.fwd.id, existsOk) THEN ForwardKnown(c, ev)
    ELSE Eff(waiting_for_role,
             UpdateData(data[c], [user_id |-> ev.fwd.id, username |-> ev.fwd.username,
                                  first_name |-> ev.fwd.first_name,
                                  last_name |-> ev.fwd.last_name]),
             "add_user_data_desc")

\* an input step that stashes the forwarded id without the handle and names
ProcessUserInputMutIdOnly(c, ev, existsOk) ==
    IF ev.fwd.id = 0 THEN Keep(c, "error_input_forward_msg")
    ELSE IF UserExists(users, ev.fwd.id, existsOk) THEN ForwardKnown(c, ev)
    ELSE Eff(waiting_for_role, UpdateData(data[c], [user_id |-> ev.fwd.id]),
             "add_user_data_desc")

\* UsersManagerService.process_user_input / handle_forwarded_message / ask_for_role
ProcessUserInput(c, ev, existsOk) ==
    IF ev.fwd.id = 0 THEN Keep(c, "error_input_forward_msg")
    ELSE IF UserExists(users, ev.fwd.id, existsOk) THEN ForwardKnown(c, ev)
    ELSE Eff(waiting_for_role,
             UpdateData(data[c], [user_id |-> ev.fwd.id, username |-> ev.fwd.username,
                                  first_name |-> ev.fwd.first_name,
                                  last_name |-> ev.fwd.last_name]),
             "add_user_data_desc")

\* PlayersManagerService.process_player_name_input
ProcessPlayerNameInput(c, ev) ==
    IF ~ev.hasText THEN Keep(c, "raised")
    ELSE IF Len(ev.text) < 2 THEN Keep(c, "admin_player_name_format_error")
    ELSE Eff(waiting_for_player_nickname,
             UpdateData(data[c], [player_first_name |-> ev.text[1],
                                  player_last_name |-> Join(Tail(ev.text))]),
             "admin_add_player_nickname_desc")

\* PlayersManagerService.process_player_nickname_input
ProcessPlayerNicknameInput(c, ev) ==
    IF ~ev.hasText THEN Keep(c, "raised")
    ELSE Eff(waiting_for_player_photo,
             UpdateData(data[c], [player_nickname |-> Join(ev.text)]),
             "admin_add_player_photo_desc")

\* message.photo of a message with an image: the file ids of its size
\* variants, smallest first
PhotoSizes == <<"file0", "file1">>

\* a photo step that keeps the first (smallest) variant
ProcessPlayerPhotoInputMutFirstVariant(c, ev, fileOk) ==
    IF ~ev.photo THEN Keep(c, "admin_player_photo_error")
    ELSE IF ~fileOk THEN Keep(c, "error_operation")
    ELSE Eff(waiting_for_player_games,
             UpdateData(data[c], [player_photo_file_id |-> PhotoSizes[1]]),
             "admin_add_player_games_desc")

\* PlayersManagerService.process_player_photo_input; fileOk: bot.get_file succeeded
ProcessPlayerPhotoInput(c, ev, fileOk) ==
    IF ~ev.photo THEN Keep(c, "admin_player_photo_error")
    ELSE IF ~fileOk THEN Keep(c, "error_operation")
    ELSE Eff(waiting_for_player_games,
             UpdateData(data[c], [player_photo_file_id |-> PhotoSizes[Len(PhotoSizes)]]),
             "admin_add_player_games_desc")

\* int(message.text.strip()) with the < 0 check
ParseGames(text) ==
    LET r == IF Len(text) = 1 THEN ParseInt(text[1]) ELSE [ok |-> FALSE, val |-> 0] IN
    IF r.ok /\ r.val >= 0 THEN r ELSE [ok |-> FALSE, val |-> 0]

\* a games step that gives the flow up when the photo cannot be downloaded
ProcessPlayerGamesInputMutAbortsOnDownload(c, ev, downloadOk) ==
    IF ~ev.hasText THEN Keep(c, "raised")
    ELSE LET g == ParseGames(ev.text)
             first == Get(data[c], "player_first_name")
             last == Get(data[c], "player_last_name")
             fileId == Get(data[c], "player_photo_file_id")
         IN  IF ~g.ok THEN Keep(c, "admin_player_games_format_error")
             ELSE IF first = None \/ last = None THEN Clear("error_operation")
             ELSE IF fileId # None /\ ~downloadOk THEN Clear("error_operation")
             ELSE Continue(c, "ap_select",
                     [IdleCtx EXCEPT !.h = "process_player_games_input",
                                     !.first_name = first, !.last_name = last,
                                     !.nickname = Get(data[c], "player_nickname"),
                                     !.photo = IF fileId # None THEN "photo.jpg" ELSE None,
                                     !.games = g.val,
                                     !.level = CalculateLevel(g.val),
                                     !.rank = CalculateRank(g.val)],
                     "add_player_called")

\* PlayersManagerService.process_player_games_input up to the add_player call;
\* downloadOk: _download_photo returned a path
ProcessPlayerGamesInput(c, ev, downloadOk) ==
    IF ~ev.hasText THEN Keep(c, "raised")
    ELSE LET g == ParseGames(ev.text)
             first == Get(data[c], "player_first_name")
             last == Get(data[c], "player_last_name")
             fileId == Get(data[c], "player_photo_file_id")
         IN  IF ~g.ok THEN Keep(c, "admin_player_games_format_error")
             ELSE IF first = None \/ last = None THEN Clear("error_operation")
             ELSE Continue(c, "ap_select",
                     [IdleCtx EXCEPT !.h = "process_player_games_input",
                                     !.first_name = first, !.last_name = last,
                                     !.nickname = Get(data[c], "player_nickname"),
                                     !.photo = IF fileId # None /\ downloadOk
                                               THEN "photo.jpg" ELSE None,
                                     !.games = g.val,
                                     !.level = CalculateLevel(g.val),
                                     !.rank = CalculateRank(g.val)],
                     "add_player_called")

\* int(callback.data.replace("confirm_delete_player_", ""))
ConfirmDeletePlayerCallback(c, ev) ==
    LET r == ParseInt(SplitAt(ev.data, 3)) IN
    IF ~r.ok THEN Keep(c, "error_operation")
    ELSE Continue(c, "dp_get",
                  [IdleCtx EXCEPT !.h = "confirm_delete_player_callback", !.target = r.val],
                  "delete_player_called")

\* AdminRouter._back_to_admin_panel: state.clear(), then the panel
BackToAdminPanel(c, roleOk) == Clear(AdminPanel(c, roleOk))

\* a cancel that drops the FSM state but keeps the scratch data
CancelOperationMutKeepsData(c) == Eff(None, data[c], "cancelled")

\* AdminRouter._cancel_operation: state.clear(), then the notice
CancelOperation(c) == Clear("cancelled")

\* PlayersManagerService.cancel_operation: state.clear(), then the players panel
PlayersCancelOperation(c) == Clear("admin_players_management_desc")

\* UsersManagerService.delete_users_callback: the deletion list, or the
\* "no users" notice when get_all_users returns nothing
DeleteUsersCallback(c, allOk) ==
    Keep(c, IF Len(GetAllUsers(users, allOk)) = 0 THEN "delete_users_users_not_found"
            ELSE "delete_users_desc")

\* the handler h applied to event ev of conversation c; lk1, lk2 are the
\* outcomes (no error / error) of the lookups the handler makes
HandlerEffect(h, c, ev, lk1, lk2) ==
    CASE h = "_admin_panel" -> Keep(c, AdminPanel(c, lk1))
      [] h = "_back_to_admin_panel" -> BackToAdminPanel(c, lk1)
      [] h = "_cancel_operation" -> CancelOperation(c)
      [] h = "manage_users_panel" -> Clear("admin_users_management_desc")
      [] h = "add_user_callback" -> Eff(waiting_for_user_input, EmptyData, "add_user_desc")
      [] h = "users_list_callback" -> Keep(c, "users_list_desc")
      [] h = "delete_users_callback" -> DeleteUsersCallback(c, lk1)
      [] h = "process_role_callback" -> ProcessRoleCallback(c, ev)
      [] h = "delete_user_callback" -> DeleteUserCallback(c, ev, lk1, lk2)
      [] h = "confirm_delete_callback" ->
            Continue(c, "cd_parse",
                     [IdleCtx EXCEPT !.h = "confirm_delete_callback", !.payload = ev.data],
                     "confirm_delete_called")
      [] h = "cancel_delete_callback" -> Clear("delete_users_desc")
      [] h = "process_user_input" -> ProcessUserInput(c, ev, lk1)
      [] h = "manage_players_panel" -> Clear("admin_players_management_desc")
      [] h = "add_player_callback" ->
            Eff(waiting_for_player_name, UpdateData(data[c], [player_data |-> "{}"]),
                "admin_add_player_name_desc")
      [] h = "players_list_callback" -> Clear("players_list")
      [] h = "delete_players_callback" -> Clear("admin_delete_players_header")
      [] h = "cancel_operation" -> PlayersCancelOperation(c)
      [] h = "delete_player_callback" -> Keep(c, "admin_confirm_delete_player")
      [] h = "confirm_delete_player_callback" -> ConfirmDeletePlayerCallback(c, ev)
      [] h = "cancel_delete_player_callback" -> Clear("admin_delete_players_header")
      [] h = "skip_photo_callback" ->
            Eff(waiting_for_player_games,
                UpdateData(data[c], [player_photo_file_id |-> None]),
                "admin_add_player_games_desc")
      [] h = "skip_nickname_callback" ->
            Eff(waiting_for_player_photo, UpdateData(data[c], [player_nickname |-> None]),
                "admin_add_player_photo_desc")
      [] h = "process_player_name_input" -> ProcessPlayerNameInput(c, ev)
      [] h = "process_player_nickname_input" -> ProcessPlayerNicknameInput(c, ev)
      [] h = "process_player_photo_input" -> ProcessPlayerPhotoInput(c, ev, lk1)
      [] h = "process_player_games_input" -> ProcessPlayerGamesInput(c, ev, lk1)
      [] OTHER -> Keep(c, "unhandled")

----------------------------------------------------------------------------
(* Keyboards (AdminKeyboardBuilder): the callback payloads of the buttons, in
   the order they are added.                                                 *)

\* create_single_button(text, callback_data)
SingleButton(p) == <<p>>

\* role_selection_keyboard
RoleSelectionKeyboard ==
    << <<"role", "user">>, <<"role", "admin">>, <<"add", "user", "cmd">>,
       <<"cancel", "operation">> >>

\* create_confirmation_delete_user_keyboard(user_id)
ConfirmationDeleteUserKeyboard(id) ==
    << <<"confirm", "delete", IdTok(id)>>, <<"cancel", "delete", IdTok(id)>> >>

RECURSIVE DeleteUserButtonsMutNoFilter(_)
\* a deletion list that skips nobody
DeleteUserButtonsMutNoFilter(rows) ==
    IF Len(rows) = 0 THEN <<>>
    ELSE << <<"delete", "user", IdTok(Head(rows).user_id)>> >>
            \o DeleteUserButtonsMutNoFilter(Tail(rows))

RECURSIVE DeleteUserButtons(_)
\* create_delete_user_list_keyboard, its loop: one delete_user_<id> button
\* per listed user whose role is not admin
DeleteUserButtons(rows) ==
    IF Len(rows) = 0 THEN <<>>
    ELSE IF Head(rows).role = ADMIN THEN DeleteUserButtons(Tail(rows))
    ELSE << <<"delete", "user", IdTok(Head(rows).user_id)>> >>
            \o DeleteUserButtons(Tail(rows))

\* create_delete_user_list_keyboard(users)
CreateDeleteUserListKeyboard(rows) ==
    DeleteUserButtons(rows) \o SingleButton(<<"back", "to", "admin">>)

\* reply_markup of delete_users_callback
DeleteUsersKeyboard(tbl, allOk) ==
    IF Len(GetAllUsers(tbl, allOk)) = 0 THEN SingleButton(<<"back", "to", "admin">>)
    ELSE CreateDeleteUserListKeyboard(GetAllUsers(tbl, allOk))

\* nickname_skip_keyboard
NicknameSkipKeyboard == << <<"skip", "nickname">>, <<"cancel", "operation">> >>

\* photo_upload_keyboard
PhotoUploadKeyboard == << <<"skip", "photo">>, <<"cancel", "operation">> >>

\* reply_markup of the notice with which handler h moves a conversation into
\* a waiting state; d is the scratch data the handler leaves
EntryKeyboard(h, d) ==
    CASE h = "add_user_callback" -> SingleButton(<<"back", "to", "admin">>)
      [] h = "process_user_input" -> RoleSelectionKeyboard
      [] h = "delete_user_callback" ->
            ConfirmationDeleteUserKeyboard(GetId(d, "delete_user_id"))
      [] h = "add_player_callback" -> SingleButton(<<"cancel", "operation">>)
      [] h = "process_player_name_input" -> NicknameSkipKeyboard
      [] h \in {"process_player_nickname_input", "skip_nickname_callback"} ->
            PhotoUploadKeyboard
      [] h \in {"process_player_photo_input", "skip_photo_callback"} ->
            SingleButton(<<"cancel", "operation">>)
      [] OTHER -> <<>>

----------------------------------------------------------------------------
(* Table statements *)

UserRow(id, username, first, last, role) ==
    [user_id |-> id, username |-> username, first_name |-> first,
     last_name |-> last, role |-> role]

\* UPDATE users SET <the fields that are not None> WHERE user_id = ?
UpdateUserRows(tbl, id, username, first, last, role) ==
    [i \in DOMAIN tbl |->
        IF tbl[i].user_id # id THEN tbl[i]
        ELSE UserRow(id,
                     IF username # None THEN username ELSE tbl[i].username,
                     IF first # None THEN first ELSE tbl[i].first_name,
                     IF last # None THEN last ELSE tbl[i].last_name,
                     IF role # None THEN role ELSE tbl[i].role)]

\* INSERT INTO users ...: a unique index, if the schema declares one, rejects
\* a second row for the id (the error is swallowed by _execute)
InsertUserRow(tbl, unique, row) ==
    IF unique /\ Registered(tbl, row.user_id) THEN tbl ELSE Append(tbl, row)

RECURSIVE DeleteUserRows(_, _)
\* DELETE FROM users WHERE user_id = ?
DeleteUserRows(tbl, id) ==
    IF tbl = <<>> THEN <<>>
    ELSE IF Head(tbl).user_id = id THEN DeleteUserRows(Tail(tbl), id)
    ELSE <<Head(tbl)>> \o DeleteUserRows(Tail(tbl), id)

\* DatabaseUserHandler.add_user after its user_exists check: update_user when
\* the check said the id exists, INSERT otherwise; ok: the statement ran
AddUserWriteRows(tbl, unique, cx, ok) ==
    IF ~ok THEN tbl
    ELSE IF cx.exists
         THEN UpdateUserRows(tbl, cx.target, cx.username, cx.first_name, cx.last_name, cx.role)
         ELSE InsertUserRow(tbl, unique,
                            UserRow(cx.target, cx.username, cx.first_name, cx.last_name, cx.role))

PlayerRow(pid, cx, photo) ==
    [player_id |-> pid, first_name |-> cx.first_name, last_name |-> cx.last_name,
     nickname |-> cx.nickname, photo |-> photo, games_played |-> cx.games,
     rank_player |-> cx.rank, level |-> cx.level]

\* INSERT INTO players ...: the tables are created column by column
\* ('"col" type' joined by commas), so no constraint over the pair
\* (first_name, last_name) exists for the INSERT to run into
InsertPlayerRow(tbl, row) == Append(tbl, row)

RECURSIVE DeletePlayerRows(_, _)
\* DELETE FROM players WHERE player_id = ?
DeletePlayerRows(tbl, pid) ==
    IF tbl = <<>> THEN <<>>
    ELSE IF Head(tbl).player_id = pid THEN DeletePlayerRows(Tail(tbl), pid)
    ELSE <<Head(tbl)>> \o DeletePlayerRows(Tail(tbl), pid)

----------------------------------------------------------------------------
(* Initial state: the tables as EngineBot.init leaves them (the admins of the
   configuration are registered; the database file keeps what earlier runs
   stored), empty MemoryStorage, no handler in flight.                       *)

AdminRow(i) == UserRow(i, None, "Admin", "User", ADMIN)

EarlierUsers ==
    { <<>>, <<UserRow(2, "bob", "Bob", "Ray", USER)>>,
      <<UserRow(2, "bob", "Bob", "Ray", USER), UserRow(3, "", "Eve", "", USER)>> }

EarlierPlayers ==
    { <<>>,
      <<[player_id |-> 1, first_name |-> "Ann", last_name |-> "Lee", nickname |-> None,
         photo |-> None, games_played |-> 0, rank_player |-> BEGINNER, level |-> 0]>> }

\* the record of the last thing that happened: an inbound event with the
\* middleware's verdict on it, or a step of a handler in flight; `from` is the
\* FSM state the conversation was in when it happened, `inp` the tokens of the
\* event's text or callback payload
NoEv ==
    [sender |-> 0, kind |-> "none", handler |-> "none", flag |-> None,
     fault |-> "none", outcome |-> "none", role |-> None, fwd |-> 0, res |-> "none",
     from |-> None, inp |-> <<>>]

----------------------------------------------------------------------------
(* Locale text expansion.  A string value is the sequence of its
   whitespace-separated tokens; the token "{k}" is a placeholder naming k,
   every other token is literal text.  A value that is not a string (a number
   of the JSON file) carries str = FALSE. *)

LocaleKeys == {"a", "b", "c", "t"}

\* the keys in the order the loaded dict iterates them
KeyOrder == <<"a", "b", "c", "t">>

\* names a placeholder can carry: the keys and one name that is no key
PlaceholderNames == LocaleKeys \cup {"z"}

Placeholder(k) == "{" \o k \o "}"

IsPlaceholder(tok) == \E n \in PlaceholderNames : tok = Placeholder(n)

NameOf(tok) == CHOOSE n \in PlaceholderNames : tok = Placeholder(n)

StrValue(toks) == [str |-> TRUE, toks |-> toks]

NonStrValue == [str |-> FALSE, toks |-> <<"5">>]

LocaleValues ==
    { StrValue(<<"X">>), StrValue(<<"Y">>),
      StrValue(<<Placeholder("a"), "and", Placeholder("b")>>),
      StrValue(<<Placeholder("a")>>),
      StrValue(<<"x", Placeholder("a")>>),
      StrValue(<<Placeholder("b"), "1">>),
      StrValue(<<Placeholder("t")>>),
      StrValue(<<Placeholder("a"), Placeholder("z")>>),
      NonStrValue }

\* re.search(r'\{.*\}', value)
HasPattern(toks) == \E i \in DOMAIN toks : IsPlaceholder(toks[i])

\* `k in value`: the key occurs in the text of the value, inside braces or not
\* ("a" occurs in the word "and")
KeyIn(k, toks) ==
    \E i \in DOMAIN toks :
        \/ toks[i] = Placeholder(k)
        \/ toks[i] = k
        \/ k = "a" /\ toks[i] = "and"

\* `value in v` for two strings
Contains(v, value) ==
    \E i \in 0 .. (Len(v) - Len(value)) : SubSeq(v, i + 1, i + Len(value)) = value

\* the keys of S in dict order
OrderedKeys(S) == SelectSeq(KeyOrder, LAMBDA k : k \in S)

\* {k: v for k, v in config if k in value and isinstance(v, str)}
ReplacesModule(value, d) ==
    [k \in { k \in LocaleKeys : KeyIn(k, value) /\ d[k].str } |-> d[k].toks]

\* {k: v for k, v in config if k in value and value not in v}
ReplacesLegacy(value, d) ==
    [k \in { k \in LocaleKeys : KeyIn(k, value) /\ ~Contains(d[k].toks, value) }
        |-> d[k].toks]

\* value.format_map(replaces): KeyError (ok = FALSE) when a placeholder names
\* no entry of replaces
RECURSIVE FormatMap(_, _)
FormatMap(toks, replaces) ==
    IF toks = <<>> THEN [ok |-> TRUE, toks |-> <<>>]
    ELSE LET h == Head(toks)
             rest == FormatMap(Tail(toks), replaces)
         IN  IF ~rest.ok THEN [ok |-> FALSE, toks |-> <<>>]
             ELSE IF ~IsPlaceholder(h) THEN [ok |-> TRUE, toks |-> <<h>> \o rest.toks]
             ELSE IF NameOf(h) \in DOMAIN replaces
                  THEN [ok |-> TRUE, toks |-> replaces[NameOf(h)] \o rest.toks]
                  ELSE [ok |-> FALSE, toks |-> <<>>]

\* the two implementations: core/locale/locale.py and the older locale.py that
\* BaseRouter still constructs
BaseLocaleModule == "BaseLocaleModule"
BaseLocale == "BaseLocale"

\* the locale of the running bot, built before polling starts
LocaleLoaded ==
    [impl |-> "none", data |-> <<>>, processed |-> <<>>, next |-> 1, stack |-> <<>>,
     visited |-> {}, status |-> "done", err |-> "none"]

\* a module as loaded from its file, before _process_data / _forming_locale
StartBuild(impl, d) ==
    [impl |-> impl, data |-> d, processed |-> <<>>, next |-> 1, stack |-> <<>>,
     visited |-> {}, status |-> "building", err |-> "none"]

InitConversations ==
    /\ state = [c \in Senders |-> None]
    /\ data = [c \in Senders |-> EmptyData]
    /\ pc = [c \in Senders |-> "idle"]
    /\ ctx = [c \in Senders |-> IdleCtx]
    /\ lastEv = NoEv
    /\ nEvents = 0

Init ==
    /\ users \in { <<AdminRow(1)>> \o e : e \in EarlierUsers }
    /\ uniqueIdx \in BOOLEAN
    /\ players = <<>>
    /\ nextPid = 1
    /\ InitConversations
    /\ locale = LocaleLoaded

InitPlayers ==
    /\ users = <<AdminRow(1), UserRow(2, "bob", "Bob", "Ray", USER)>>
    /\ uniqueIdx = TRUE
    /\ players \in EarlierPlayers
    /\ nextPid = Len(players) + 1
    /\ InitConversations
    /\ locale = LocaleLoaded

\* a roster of one player whose stored levels are those of its games count
RosterRow(g) ==
    [player_id |-> 1, first_name |-> "Ann", last_name |-> "Lee", nickname |-> None,
     photo |-> None, games_played |-> g, rank_player |-> CalculateRank(g),
     level |-> CalculateLevel(g)]

InitRoster ==
    /\ users = <<AdminRow(1), UserRow(2, "bob", "Bob", "Ray", ADMIN)>>
    /\ uniqueIdx = TRUE
    /\ players \in { <<RosterRow(g)>> : g \in {0, 3, 24} }
    /\ nextPid = 2
    /\ InitConversations
    /\ locale = LocaleLoaded

\* both senders are admins (the second one registered by an earlier run)
InitTwoAdmins ==
    /\ users = <<AdminRow(1), UserRow(2, "bob", "Bob", "Ray", ADMIN)>>
    /\ uniqueIdx \in BOOLEAN
    /\ players = <<>>
    /\ nextPid = 1
    /\ InitConversations
    /\ locale = LocaleLoaded

----------------------------------------------------------------------------
(* The lookups that can fail while an event is handled up to the handler's
   first write: the gate's two ("exists", "role") and those of the handler
   ("lk1", "lk2").  One run of a handler prelude meets at most one failure.  *)

HandlerLookups(h) ==
    CASE h \in {"_admin_panel", "_back_to_admin_panel", "process_user_input",
                "delete_users_callback",
                "process_player_photo_input", "process_player_games_input"} -> {"lk1"}
      [] h = "delete_user_callback" -> {"lk1", "lk2"}
      [] OTHER -> {}

FaultsOf(h) == {"none", "exists", "role"} \cup HandlerLookups(h)

----------------------------------------------------------------------------
(* Actions *)

Finish(c, st, d) ==
    /\ state' = [state EXCEPT ![c] = st]
    /\ data' = [data EXCEPT ![c] = d]
    /\ pc' = [pc EXCEPT ![c] = "idle"]
    /\ ctx' = [ctx EXCEPT ![c] = IdleCtx]

Goto(c, at, cx) ==
    /\ pc' = [pc EXCEPT ![c] = at]
    /\ ctx' = [ctx EXCEPT ![c] = cx]
    /\ UNCHANGED <<state, data>>

\* the record of a step of the handler in flight in conversation c
StepEv(c, res) ==
    [NoEv EXCEPT !.sender = c, !.kind = "step", !.handler = ctx[c].h,
                 !.outcome = "step", !.fwd = ctx[c].target, !.res = res,
                 !.from = state[c]]

\* One inbound event of conversation c: the dispatcher picks the handler, the
\* middleware wraps its call, the handler runs up to its first database
\* write.  An event no filter matches reaches neither middleware nor handler.
Deliver(c, ev, Faults, bound) ==
    /\ pc[c] = "idle"
    /\ nEvents < bound
    /\ LET h == Dispatch(ev, state[c]) IN
       \E f \in IF h = "none" THEN {"none"} ELSE FaultsOf(h) \cap Faults :
        LET g == IF h = "none" THEN [outcome |-> "unhandled", role |-> None]
                 ELSE Gate(users, c, HandlerFlag(h), f # "exists", f # "role")
            eff == IF g.outcome = "invoked"
                   THEN HandlerEffect(h, c, ev, f # "lk1", f # "lk2")
                   ELSE Keep(c, g.outcome)
        IN  /\ state' = [state EXCEPT ![c] = eff.st]
            /\ data' = [data EXCEPT ![c] = eff.d]
            /\ pc' = [pc EXCEPT ![c] = eff.pc]
            \* senderRole: the sender's stored role when the event arrived
            /\ ctx' = [ctx EXCEPT ![c] =
                          IF eff.pc = "idle" THEN IdleCtx
                          ELSE [eff.ctx EXCEPT !.senderRole = StoredRole(users, c)]]
            /\ lastEv' = [sender |-> c, kind |-> ev.kind, handler |-> h,
                          flag |-> HandlerFlag(h), fault |-> f, outcome |-> g.outcome,
                          role |-> g.role, fwd |-> ev.fwd.id, res |-> eff.res,
                          from |-> state[c],
                          inp |-> IF ev.kind = "message" THEN ev.text ELSE ev.data]
    /\ nEvents' = nEvents + 1
    /\ UNCHANGED <<users, players, nextPid, uniqueIdx, locale>>

\* An inbound event of conversation c that arrives while a handler of c is
\* suspended in a database call.  start_polling handles every update in a task
\* of its own and the Dispatcher is built without events_isolation, so the
\* event is dispatched on the state the suspended handler has left so far.
\* Taken here for the handlers that end without a database write step; the
\* suspended handler stays where it is.
DeliverOverlapping(c, ev, bound) ==
    /\ pc[c] # "idle"
    /\ nEvents < bound
    /\ LET h == Dispatch(ev, state[c])
           g == IF h = "none" THEN [outcome |-> "unhandled", role |-> None]
                ELSE Gate(users, c, HandlerFlag(h), TRUE, TRUE)
           eff == IF g.outcome = "invoked" THEN HandlerEffect(h, c, ev, TRUE, TRUE)
                  ELSE Keep(c, g.outcome)
       IN  /\ eff.pc = "idle"
           /\ state' = [state EXCEPT ![c] = eff.st]
           /\ data' = [data EXCEPT ![c] = eff.d]
           /\ lastEv' = [sender |-> c, kind |-> ev.kind, handler |-> h,
                         flag |-> HandlerFlag(h), fault |-> "none", outcome |-> g.outcome,
                         role |-> g.role, fwd |-> ev.fwd.id, res |-> eff.res,
                         from |-> state[c],
                         inp |-> IF ev.kind = "message" THEN ev.text ELSE ev.data]
    /\ nEvents' = nEvents + 1
    /\ UNCHANGED <<users, players, nextPid, uniqueIdx, locale, pc, ctx>>

\* add_user: `if await self.user_exists(user_id)`
AddUserExists(c, Oks) ==
    /\ pc[c] = "au_exists"
    /\ \E ok \in Oks :
        Goto(c, "au_write", [ctx[c] EXCEPT !.exists = UserExists(users, ctx[c].target, ok)])
    /\ lastEv' = StepEv(c, "user_exists")
    /\ UNCHANGED <<users, players, nextPid, uniqueIdx, locale, nEvents>>

\* add_user: the UPDATE or INSERT, then the rest of process_role_callback.
\* _execute returns None whether or not the statement failed, so add_user
\* reports SUCCESSFUL either way; the handler then clears the state.
AddUserWrite(c, Oks) ==
    /\ pc[c] = "au_write"
    /\ \E ok \in Oks :
        LET tbl == AddUserWriteRows(users, uniqueIdx, ctx[c], ok) IN
        /\ Len(tbl) <= MaxUserRows
        /\ users' = tbl
    /\ Finish(c, None, EmptyData)
    /\ lastEv' = StepEv(c, SUCCESSFUL)
    /\ UNCHANGED <<players, nextPid, uniqueIdx, locale, nEvents>>

\* user_id = int(callback.data.split("_")[2]) in confirm_delete_callback
ParseConfirmUserIdMutLastToken(p) == ParseInt(SplitAt(p, 3))

ParseConfirmUserId(p) == ParseInt(SplitAt(p, 2))

\* UsersManagerService.confirm_delete_callback, one awaited call per step:
\*   cd_parse       the int() of the payload token
\*   cd_exists      user_exists(user_id)
\*   cd_role        get_user_role(user_id)
\*   cd_del_exists  delete_user: its own user_exists(user_id)
\*   cd_delete      delete_user: the DELETE, then the notice and state.clear()
\* Every exit of the handler, the except branch included, clears the state.
ConfirmDeleteStep(c, Oks) ==
    /\ pc[c] \in {"cd_parse", "cd_exists", "cd_role", "cd_del_exists", "cd_delete"}
    /\ \E ok \in Oks :
        LET cx == ctx[c]
            r == ParseConfirmUserId(cx.payload)
            Exit(res) == /\ Finish(c, None, EmptyData)
                         /\ lastEv' = StepEv(c, res)
                         /\ UNCHANGED users
            Step(at, cx2) == /\ Goto(c, at, cx2)
                             /\ lastEv' = StepEv(c, at)
                             /\ UNCHANGED users
        IN  CASE pc[c] = "cd_parse" ->
                    IF r.ok THEN Step("cd_exists", [cx EXCEPT !.target = r.val])
                    ELSE Exit("error_delete_user_desc")
              [] pc[c] = "cd_exists" ->
                    IF UserExists(users, cx.target, ok) THEN Step("cd_role", cx)
                    ELSE Exit("error_user_not_found")
              [] pc[c] = "cd_role" ->
                    IF GetUserRole(users, cx.target, ok) = ADMIN
                    THEN Exit("error_delete_admin")
                    ELSE Step("cd_del_exists",
                              [cx EXCEPT !.role = GetUserRole(users, cx.target, ok)])
              [] pc[c] = "cd_del_exists" ->
                    IF UserExists(users, cx.target, ok) THEN Step("cd_delete", cx)
                    ELSE Exit("error_delete_user_desc")
              [] pc[c] = "cd_delete" ->
                    /\ users' = IF ok THEN DeleteUserRows(users, cx.target) ELSE users
                    /\ Finish(c, None, EmptyData)
                    /\ lastEv' = StepEv(c, IF cx.role = None THEN "error_delete_user_desc"
                                           ELSE "user_deleted_successful_desc")
    /\ UNCHANGED <<players, nextPid, uniqueIdx, locale, nEvents>>

\* add_player: the numeric_level check and the SELECT for an existing
\* (first_name, last_name); on a hit add_player returns USER_ALREADY_EXISTS.
\* The handler has then already reached state.clear().
AddPlayerSelect(c, Oks) ==
    /\ pc[c] = "ap_select"
    /\ \E ok \in Oks :
        LET cx == ctx[c] IN
        IF cx.level < 0
        THEN Finish(c, None, EmptyData) /\ lastEv' = StepEv(c, INVALID_INPUT)
        ELSE IF PlayerNamed(players, cx.first_name, cx.last_name, ok)
        THEN Finish(c, None, EmptyData) /\ lastEv' = StepEv(c, USER_ALREADY_EXISTS)
        ELSE Goto(c, "ap_insert", cx) /\ lastEv' = StepEv(c, "no_rows")
    /\ UNCHANGED <<users, players, nextPid, uniqueIdx, locale, nEvents>>

\* add_player: _process_photo and the INSERT (its result is not looked at),
\* then state.clear() and the success notice
AddPlayerInsert(c, Oks) ==
    /\ pc[c] = "ap_insert"
    /\ \E ok, photoOk \in Oks :
        LET cx == ctx[c]
            row == PlayerRow(nextPid, cx,
                             IF cx.photo # None /\ photoOk THEN "photos/file.jpg" ELSE None)
            tbl == IF ok THEN InsertPlayerRow(players, row) ELSE players
        IN  /\ Len(tbl) <= MaxPlayerRows
            /\ players' = tbl
            /\ nextPid' = IF ok THEN nextPid + 1 ELSE nextPid
    /\ Finish(c, None, EmptyData)
    /\ lastEv' = StepEv(c, SUCCESSFUL)
    /\ UNCHANGED <<users, uniqueIdx, locale, nEvents>>

\* delete_player: get_player (for the photo file)
DeletePlayerGet(c, Oks) ==
    /\ pc[c] = "dp_get"
    /\ \E ok \in Oks :
        Goto(c, "dp_delete", [ctx[c] EXCEPT !.exists = PlayerFound(players, ctx[c].target, ok)])
    /\ lastEv' = StepEv(c, "get_player")
    /\ UNCHANGED <<users, players, nextPid, uniqueIdx, locale, nEvents>>

\* delete_player: the DELETE; SUCCESSFUL whatever happened.  The handler takes
\* no FSM context: state and data stay as they are.
DeletePlayerDelete(c, Oks) ==
    /\ pc[c] = "dp_delete"
    /\ \E ok \in Oks :
        players' = IF ok THEN DeletePlayerRows(players, ctx[c].target) ELSE players
    /\ Finish(c, state[c], data[c])
    /\ lastEv' = StepEv(c, SUCCESSFUL)
    /\ UNCHANGED <<users, nextPid, uniqueIdx, locale, nEvents>>

\* UPDATE players SET <the fields of upd> WHERE player_id = ?  (the model's
\* level and rank_player are the columns numeric_level and player_level)
UpdatePlayerRows(tbl, pid, upd) ==
    [i \in DOMAIN tbl |->
        IF tbl[i].player_id = pid
        THEN [k \in DOMAIN tbl[i] |-> IF k \in DOMAIN upd THEN upd[k] ELSE tbl[i][k]]
        ELSE tbl[i]]

\* the record of a call of a DatabaseQuizPlayerHandler operation by caller c
CallEv(c, name, pid, res) ==
    [NoEv EXCEPT !.sender = c, !.kind = "call", !.handler = name, !.fwd = pid,
                 !.outcome = "call", !.res = res, !.from = state[c]]

\* update_player(player_id, **upd): one UPDATE of the fields given; it is
\* also what update_numeric_level and update_text_level run (as `name`)
UpdatePlayer(c, name, pid, upd, Oks, bound) ==
    /\ pc[c] = "idle"
    /\ nEvents < bound
    /\ \E ok \in Oks :
        LET invalid == "level" \in DOMAIN upd /\ upd.level < 0 IN
        /\ players' = IF ok /\ ~invalid THEN UpdatePlayerRows(players, pid, upd)
                       ELSE players
        /\ lastEv' = CallEv(c, name, pid, IF invalid THEN INVALID_INPUT ELSE SUCCESSFUL)
    /\ nEvents' = nEvents + 1
    /\ UNCHANGED <<users, nextPid, uniqueIdx, locale, state, data, pc, ctx>>

\* update_numeric_level(player_id, numeric_level)
UpdateNumericLevel(c, pid, n, Oks, bound) ==
    UpdatePlayer(c, "update_numeric_level", pid, [level |-> n], Oks, bound)

\* update_text_level(player_id, player_level)
UpdateTextLevel(c, pid, r, Oks, bound) ==
    UpdatePlayer(c, "update_text_level", pid, [rank_player |-> r], Oks, bound)

\* a call of auto_update_levels(player_id), up to its get_player
AutoUpdateLevelsCall(c, pid, bound) ==
    /\ pc[c] = "idle"
    /\ nEvents < bound
    /\ Goto(c, "lv_get", [IdleCtx EXCEPT !.h = "auto_update_levels", !.target = pid])
    /\ lastEv' = CallEv(c, "auto_update_levels", pid, "called")
    /\ nEvents' = nEvents + 1
    /\ UNCHANGED <<users, players, nextPid, uniqueIdx, locale>>

\* increment_games_played: UPDATE ... SET games_played = games_played + 1,
\* then auto_update_levels
IncrementGamesPlayed(c, pid, Oks, bound) ==
    /\ pc[c] = "idle"
    /\ nEvents < bound
    /\ \E ok \in Oks :
        players' = IF ok
                   THEN [i \in DOMAIN players |->
                           IF players[i].player_id = pid
                           THEN [players[i] EXCEPT !.games_played = @ + 1]
                           ELSE players[i]]
                   ELSE players
    /\ Goto(c, "lv_get", [IdleCtx EXCEPT !.h = "increment_games_played", !.target = pid])
    /\ lastEv' = CallEv(c, "increment_games_played", pid, "games_updated")
    /\ nEvents' = nEvents + 1
    /\ UNCHANGED <<users, nextPid, uniqueIdx, locale>>

\* auto_update_levels: get_player and the two level functions on what it read
LevelsGet(c, Oks) ==
    /\ pc[c] = "lv_get"
    /\ \E ok \in Oks :
        IF PlayerFound(players, ctx[c].target, ok)
        THEN LET row == players[CHOOSE i \in DOMAIN players :
                                    players[i].player_id = ctx[c].target]
             IN  /\ Goto(c, "lv_update",
                         [ctx[c] EXCEPT !.games = row.games_played,
                                        !.level = CalculateLevel(row.games_played),
                                        !.rank = CalculateRank(row.games_played)])
                 /\ lastEv' = StepEv(c, "get_player")
        ELSE /\ Finish(c, state[c], data[c])
             /\ lastEv' = StepEv(c, "USER_NOT_FOUND")
    /\ UNCHANGED <<users, players, nextPid, uniqueIdx, locale, nEvents>>

\* auto_update_levels: update_player with the levels computed from the read
LevelsUpdate(c, Oks) ==
    /\ pc[c] = "lv_update"
    /\ \E ok \in Oks :
        players' = IF ok
                   THEN UpdatePlayerRows(players, ctx[c].target,
                                         [rank_player |-> ctx[c].rank, level |-> ctx[c].level])
                   ELSE players
    /\ Finish(c, state[c], data[c])
    /\ lastEv' = StepEv(c, SUCCESSFUL)
    /\ UNCHANGED <<users, nextPid, uniqueIdx, locale, nEvents>>

\* AuthMiddleware.__call__ on its own, in front of a handler that declares
\* the role `flag` (or none): the verdict is recorded, nothing else moves
GateCall(id, flag, f) ==
    /\ LET g == Gate(users, id, flag, f # "exists", f # "role") IN
       lastEv' = [NoEv EXCEPT !.sender = id, !.kind = "gate", !.handler = "any",
                              !.flag = flag, !.fault = f, !.outcome = g.outcome,
                              !.role = g.role]
    /\ UNCHANGED <<users, players, nextPid, uniqueIdx, locale, state, data, pc, ctx, nEvents>>

\* AuthMiddleware.__call__ on its own for an event of sender id, or of no
\* sender (id = 0); f is the lookup that would fail if it were made
AuthMiddlewareCall(id, flag, f) ==
    /\ LET g == AuthMiddleware(users, id, flag, f # "exists", f # "role") IN
       lastEv' = [NoEv EXCEPT !.sender = id, !.kind = "gate", !.handler = "any",
                              !.flag = flag, !.fault = f, !.outcome = g.outcome,
                              !.role = g.role]
    /\ UNCHANGED <<users, players, nextPid, uniqueIdx, locale, state, data, pc, ctx, nEvents>>

----------------------------------------------------------------------------
(* Specifications.  Handlers of different conversations interleave at their
   awaited database calls.                                                   *)

----------------------------------------------------------------------------
(* Building a locale module: _process_data (BaseLocaleModule) or
   _forming_locale (BaseLocale) expands the values key by key; _expand_value
   recurses, one frame of `locale.stack` per call that reached its loop. *)

\* what a call _expand_value(value, config, visited) does up to its loop: it
\* returns the value as it is, or it reaches the loop with a replaces dict, or
\* the interpreter refuses one more frame; in BaseLocale `value not in v`
\* raises TypeError on a v that is no string
ExpandCall(impl, value, d, visited, depth) ==
    IF ~HasPattern(value)
    THEN [kind |-> "return", visited |-> visited, replaces |-> <<>>]
    ELSE IF impl = BaseLocaleModule /\ value \in visited
    THEN [kind |-> "return", visited |-> visited, replaces |-> <<>>]
    ELSE IF impl = BaseLocale /\ \E k \in LocaleKeys : KeyIn(k, value) /\ ~d[k].str
    THEN [kind |-> "TypeError", visited |-> visited, replaces |-> <<>>]
    ELSE LET seen == IF impl = BaseLocaleModule THEN visited \cup {value} ELSE visited
             replaces == IF impl = BaseLocaleModule THEN ReplacesModule(value, d)
                         ELSE ReplacesLegacy(value, d)
         IN  IF DOMAIN replaces = {}
             THEN [kind |-> "return", visited |-> seen, replaces |-> <<>>]
             ELSE IF depth >= MaxDepth
             THEN [kind |-> "RecursionError", visited |-> seen, replaces |-> <<>>]
             ELSE [kind |-> "loop", visited |-> seen, replaces |-> replaces]

Frame(value, replaces) ==
    [value |-> value, replaces |-> replaces, todo |-> OrderedKeys(DOMAIN replaces)]

\* the value of the key in turn is stored and the build moves to the next key
Stored(L, val) ==
    LET key == KeyOrder[L.next] IN
    [L EXCEPT !.processed = [k \in (DOMAIN L.processed) \cup {key} |->
                                IF k = key THEN val ELSE L.processed[k]],
              !.next = L.next + 1,
              !.stack = <<>>,
              !.visited = {},
              !.status = IF L.next = Len(KeyOrder) THEN "done" ELSE "building"]

\* the exception leaves the constructor
Raised(L, err) ==
    [L EXCEPT !.status = "raised", !.err = err, !.stack = <<>>, !.visited = {}]

\* the frame on top of the stack gets the expansion of the key it waits for
Resume(frame, toks) ==
    [frame EXCEPT !.replaces[Head(frame.todo)] = toks, !.todo = Tail(frame.todo)]

WorkflowIdle ==
    UNCHANGED <<users, players, nextPid, uniqueIdx, state, data, pc, ctx, lastEv, nEvents>>

\* the loop over the module's items takes the next key
LocaleProcessItem ==
    /\ locale.status = "building"
    /\ locale.stack = <<>>
    /\ LET v == locale.data[KeyOrder[locale.next]]
           o == ExpandCall(locale.impl, v.toks, locale.data, {}, 0)
       IN  locale' =
             IF ~v.str
             THEN IF locale.impl = BaseLocaleModule THEN Stored(locale, v)
                  ELSE Raised(locale, "TypeError")
             ELSE IF o.kind = "return" THEN Stored(locale, v)
             ELSE IF o.kind # "loop" THEN Raised(locale, o.kind)
             ELSE [locale EXCEPT !.stack = <<Frame(v.toks, o.replaces)>>,
                                 !.visited = o.visited]
    /\ WorkflowIdle

\* one iteration of `for k, v in replaces.items()` in the innermost call
LocaleExpandStep ==
    /\ locale.status = "building"
    /\ locale.stack # <<>>
    /\ LET n == Len(locale.stack)
           top == locale.stack[n]
       IN  /\ top.todo # <<>>
           /\ LET v == top.replaces[Head(top.todo)]
                  o == ExpandCall(locale.impl, v, locale.data, locale.visited, n)
              IN  locale' =
                    IF o.kind \notin {"return", "loop"} THEN Raised(locale, o.kind)
                    ELSE IF o.kind = "loop"
                    THEN [locale EXCEPT !.stack = Append(locale.stack, Frame(v, o.replaces)),
                                        !.visited = o.visited]
                    ELSE [locale EXCEPT !.stack[n] = Resume(top, v),
                                        !.visited = o.visited]
    /\ WorkflowIdle

\* the innermost call leaves its loop, formats and returns
LocaleReturn ==
    /\ locale.status = "building"
    /\ locale.stack # <<>>
    /\ LET n == Len(locale.stack)
           top == locale.stack[n]
           r == FormatMap(top.value, top.replaces)
       IN  /\ top.todo = <<>>
           /\ locale' =
                 IF ~r.ok THEN Raised(locale, "KeyError")
                 ELSE IF n = 1 THEN Stored(locale, StrValue(r.toks))
                 ELSE [locale EXCEPT
                         !.stack = Append(SubSeq(locale.stack, 1, n - 2),
                                          Resume(locale.stack[n - 1], r.toks))]
    /\ WorkflowIdle

AllFaults == {"none", "exists", "role", "lk1", "lk2"}

UserSteps(c, Oks) ==
    \/ AddUserExists(c, Oks)
    \/ AddUserWrite(c, Oks)
    \/ ConfirmDeleteStep(c, Oks)

PlayerSteps(c, Oks) ==
    \/ AddPlayerSelect(c, Oks)
    \/ AddPlayerInsert(c, Oks)
    \/ DeletePlayerGet(c, Oks)
    \/ DeletePlayerDelete(c, Oks)

Next ==
    \E c \in Senders :
        \/ \E ev \in AllEvents : Deliver(c, ev, AllFaults, MaxEvents)
        \/ UserSteps(c, BOOLEAN)
        \/ PlayerSteps(c, BOOLEAN)

Spec == Init /\ [][Next]_vars

\* the gate alone, in front of handlers with and without a declared role
NextGate ==
    \E id \in Ids, flag \in Roles \cup {None}, f \in {"none", "exists", "role"} :
        GateCall(id, flag, f)

SpecGate == Init /\ [][NextGate]_vars

\* the middleware in front of events with and without a sender
NextMiddleware ==
    \E id \in Ids \cup {0}, flag \in Roles \cup {None}, f \in {"none", "exists", "role"} :
        AuthMiddlewareCall(id, flag, f)

SpecMiddleware == Init /\ [][NextMiddleware]_vars

\* the user-management flows, any lookup or statement may fail
NextUsers ==
    \E c \in Senders :
        \/ \E ev \in UserEvents : Deliver(c, ev, AllFaults, MaxEvents)
        \/ UserSteps(c, BOOLEAN)

SpecUsers == Init /\ [][NextUsers]_vars

\* two conversations running the add-user flow, no persistence error at all
NextUserRace ==
    \E c \in Senders :
        \/ \E ev \in UserRaceEvents : Deliver(c, ev, {"none"}, MaxRaceEvents)
        \/ AddUserExists(c, {TRUE})
        \/ AddUserWrite(c, {TRUE})

SpecUserRace == InitTwoAdmins /\ [][NextUserRace]_vars

\* the player-management flows; the gate's lookups succeed, the handlers'
\* lookups and statements may fail
NextPlayers ==
    \E c \in Senders :
        \/ \E ev \in PlayerEvents : Deliver(c, ev, {"none", "lk1"}, MaxPlayerEvents)
        \/ PlayerSteps(c, BOOLEAN)

SpecPlayers == InitPlayers /\ [][NextPlayers]_vars

\* two conversations running the add-player flow, no persistence error at all
NextPlayerRace ==
    \E c \in Senders :
        \/ \E ev \in PlayerRaceEvents : Deliver(c, ev, {"none"}, MaxPlayerRaceEvents)
        \/ AddPlayerSelect(c, {TRUE})
        \/ AddPlayerInsert(c, {TRUE})

SpecPlayerRace == InitTwoAdmins /\ [][NextPlayerRace]_vars

\* walking through the FSM states of both flows, no persistence error at all
NextFlows ==
    \E c \in Senders :
        \/ \E ev \in FlowEvents : Deliver(c, ev, {"none"}, MaxFlowEvents)
        \/ ConfirmDeleteStep(c, {TRUE})
        \/ DeletePlayerGet(c, {TRUE})
        \/ DeletePlayerDelete(c, {TRUE})

\* both tables as InitPlayers leaves them, the players table empty
InitFlows == InitPlayers /\ players = <<>>

SpecFlows == InitFlows /\ [][NextFlows]_vars

\* one admin running the add-player flow, typing a games count of any size
\* when asked for it; the photo download may fail, no statement does
NextAddPlayer ==
    \/ \E ev \in AddPlayerEvents : Deliver(1, ev, {"none", "lk1"}, MaxAddPlayerEvents)
    \/ /\ state[1] = waiting_for_player_games
       /\ \E ev \in GamesMsgs : Deliver(1, ev, {"none", "lk1"}, MaxAddPlayerEvents)
    \/ AddPlayerSelect(1, {TRUE})
    \/ AddPlayerInsert(1, {TRUE})

SpecAddPlayer == InitPlayers /\ [][NextAddPlayer]_vars

\* the update operations of the player handler, called by two callers whose
\* calls interleave at the awaited statements; no statement fails
NextRoster ==
    \E c \in Senders, pid \in {1, 2} :
        \/ IncrementGamesPlayed(c, pid, {TRUE}, MaxRosterCalls)
        \/ AutoUpdateLevelsCall(c, pid, MaxRosterCalls)
        \/ LevelsGet(c, {TRUE})
        \/ LevelsUpdate(c, {TRUE})
        \/ \E n \in {0, 1} : UpdateNumericLevel(c, pid, n, {TRUE}, MaxRosterCalls)
        \/ \E r \in {BEGINNER, INTERMEDIATE} :
                UpdateTextLevel(c, pid, r, {TRUE}, MaxRosterCalls)
        \/ \E upd \in { [games_played |-> 5],
                         [games_played |-> 25, level |-> 5, rank_player |-> INTERMEDIATE] } :
                UpdatePlayer(c, "update_player", pid, upd, {TRUE}, MaxRosterCalls)

SpecRoster == InitRoster /\ [][NextRoster]_vars

\* the add-user flow of one admin whose updates may overlap: a second update
\* of the conversation is handled while add_user is still awaited
OverlapEvents ==
    { Cb(<<"add", "user", "cmd">>), Cb(<<"role", "user">>), Cb(<<"cancel", "operation">>),
      Cb(<<"add", "player", "cmd">>), Msg(<<"Ann", "Lee">>, TRUE, NoFwd, FALSE) }
    \cup { Fwd(3, p) : p \in Profiles }

NextOverlap ==
    \/ \E ev \in OverlapEvents : Deliver(1, ev, {"none"}, MaxOverlapEvents)
    \/ \E ev \in OverlapEvents : DeliverOverlapping(1, ev, MaxOverlapEvents)
    \/ AddUserExists(1, {TRUE})
    \/ AddUserWrite(1, {TRUE})

SpecOverlap == Init /\ [][NextOverlap]_vars

\* one admin stashing a forwarded id and pressing role buttons, those of the
\* role keyboard and payloads no keyboard of the bot carries, in whatever
\* state the conversation is; no lookup or statement fails
RoleEvents ==
    { Cb(<<"add", "user", "cmd">>), Cb(<<"add", "player", "cmd">>),
      Cb(<<"role", "user">>), Cb(<<"role", "admin">>), Cb(<<"role", "moderator">>),
      Cb(<<"role", "user", "x">>), Cb(<<"role", "">>) }
    \cup { Fwd(3, p) : p \in Profiles }

NextRoles ==
    \/ \E ev \in RoleEvents : Deliver(1, ev, {"none"}, MaxRoleEvents)
    \/ AddUserExists(1, {TRUE})
    \/ AddUserWrite(1, {TRUE})

SpecRoles == Init /\ [][NextRoles]_vars

\* every module over LocaleKeys and LocaleValues, under either implementation
Modules == [LocaleKeys -> LocaleValues]

InitLocale ==
    /\ users = <<AdminRow(1)>>
    /\ uniqueIdx = TRUE
    /\ players = <<>>
    /\ nextPid = 1
    /\ InitConversations
    /\ locale \in { StartBuild(impl, d) : impl \in {BaseLocaleModule, BaseLocale},
                                           d \in Modules }

NextLocale ==
    \/ LocaleProcessItem
    \/ LocaleExpandStep
    \/ LocaleReturn

SpecLocale == InitLocale /\ [][NextLocale]_vars

----------------------------------------------------------------------------
(* Properties *)

\* the step just taken delivered an inbound event
Delivered == nEvents' = nEvents + 1

\* the step just taken left every conversation and both tables as they were
NothingMoved ==
    /\ state' = state /\ data' = data /\ pc' = pc /\ ctx' = ctx
    /\ users' = users /\ players' = players /\ nextPid' = nextPid

\* C1: an event (message or callback query) from a sender whose id is not in
\* the user table when the gate looks it up invokes no handler and leaves the
\* conversation state, the scratch data and both tables unchanged.
C1_AbsentSenderDenied ==
    [][ (Delivered /\ ~Registered(users, lastEv'.sender))
            => (lastEv'.outcome \in {"not_registered", "unhandled"} /\ NothingMoved) ]_vars

\* C1 witness: a callback query that a registered sender's handler would have
\* taken was denied because the sender is not in the table
C1_Witness ==
    /\ lastEv.kind = "callback"
    /\ lastEv.handler = "process_role_callback"
    /\ lastEv.outcome = "not_registered"
    /\ lastEv.fault = "none"
    /\ ~Registered(users, lastEv.sender)

\* the gate's verdict on the last event was a denial (handler not invoked)
GateDenied == lastEv.outcome \in {"not_registered", "no_rights", "raised"}

\* C2 as stated: for a sender in the user table the gate denies the event if
\* and only if the handler declares a role and the stored role differs from it.
C2_DeniedIffRoleDiffers ==
    (lastEv.kind = "gate" /\ Registered(users, lastEv.sender))
        => (GateDenied <=> (lastEv.flag # None
                            /\ StoredRole(users, lastEv.sender) # lastEv.flag))

\* C2 amended: for a sender in the user table the gate denies the event if and
\* only if its existence lookup fails, or the handler declares a role and
\* either the role lookup fails or the stored role differs from the declared
\* one; with no role declared the handler is invoked whenever the existence
\* lookup succeeds.
C2_DeniedIffRoleDiffersOrLookupFails ==
    (lastEv.kind = "gate" /\ Registered(users, lastEv.sender))
        => (GateDenied <=> (\/ lastEv.fault = "exists"
                            \/ /\ lastEv.flag # None
                               /\ \/ lastEv.fault = "role"
                                  \/ StoredRole(users, lastEv.sender) # lastEv.flag))

\* C2 witness: a registered sender with role user was denied in front of a
\* handler that declares role admin, both lookups having succeeded
C2_Witness ==
    /\ lastEv.kind = "gate"
    /\ lastEv.fault = "none"
    /\ lastEv.flag = ADMIN
    /\ StoredRole(users, lastEv.sender) = USER
    /\ lastEv.outcome = "no_rights"

\* C3: the gate fails closed: when its existence lookup or its role lookup
\* errors, the event is denied, whatever the handler declares.
C3_GateFailsClosed ==
    (lastEv.kind \in {"message", "callback"} /\ lastEv.fault \in {"exists", "role"})
        => lastEv.outcome # "invoked"

\* C4: a user or player record is added, updated or deleted only by a handler
\* whose event came from a sender with stored role admin.
C4_MutationsByAdminsOnly ==
    [][ (users' # users \/ players' # players)
            => \E c \in Senders : /\ pc[c] # "idle"
                                  /\ pc'[c] = "idle"
                                  /\ ctx[c].senderRole = ADMIN ]_vars

\* the rows of the user table with user_id id all have a role other than admin
NoAdminRow(tbl, id) == \A i \in DOMAIN tbl : tbl[i].user_id = id => tbl[i].role # ADMIN

C6_AtMostOneRecordPerId ==
    \A i, j \in DOMAIN users : users[i].user_id = users[j].user_id => i = j

\* C7: the pair (first name, last name) is unique among the player records.
C7_PlayerNamesUnique ==
    \A i, j \in DOMAIN players :
        (players[i].first_name = players[j].first_name
         /\ players[i].last_name = players[j].last_name) => i = j

\* C8: add_player for a (first name, last name) that is already in the player
\* table always ends with the already-exists outcome, the table unchanged and
\* the conversation idle, also when the existence SELECT fails.
C8_DuplicateAlwaysRejected ==
    [][ \A c \in Senders :
          (/\ ctx[c].h = "process_player_games_input"
           /\ pc[c] \in {"ap_select", "ap_insert"}
           /\ pc'[c] # pc[c]
           /\ PlayerNamed(players, ctx[c].first_name, ctx[c].last_name, TRUE))
              => /\ pc'[c] = "idle"
                 /\ lastEv'.res = USER_ALREADY_EXISTS
                 /\ players' = players
                 /\ state'[c] = None ]_vars

\* the step just taken gave the add-user flow a forwarded message whose
\* original sender is in the user table
ForwardOfRegisteredId ==
    /\ Delivered
    /\ lastEv'.handler = "process_user_input"
    /\ lastEv'.outcome = "invoked"
    /\ lastEv'.fwd # 0
    /\ Registered(users, lastEv'.fwd)

\* C9: in the add-user flow a forwarded message whose original sender is
\* already in the user table leaves the table unchanged and stashes nothing in
\* the scratch data.
C9_KnownForwardChangesNothing ==
    [][ ForwardOfRegisteredId
            => (users' = users /\ data'[lastEv'.sender] = data[lastEv'.sender]) ]_vars

\* C10: in the add-user flow a forwarded message whose original sender the
\* lookup finds in the user table ends the flow: the conversation is idle
\* after the handler.
C10_KnownForwardAborts ==
    [][ (ForwardOfRegisteredId /\ lastEv'.fault = "none")
            => state'[lastEv'.sender] = None ]_vars

\* the handlers behind the cancel buttons cancel_operation, back_to_admin and
\* cancel_player_operation
CancelHandlers == {"_cancel_operation", "_back_to_admin_panel", "cancel_operation"}

\* C11: a cancel button press (cancel_operation, back_to_admin or
\* cancel_player_operation) that reaches its handler while the conversation is
\* in a non-idle state clears the conversation: afterwards it has no active
\* state and empty scratch data, and neither table has changed.
C11_CancelClearsConversation ==
    [][ (/\ Delivered
         /\ lastEv'.handler \in CancelHandlers
         /\ lastEv'.outcome = "invoked"
         /\ lastEv'.from # None)
            => (/\ state'[lastEv'.sender] = None
                /\ data'[lastEv'.sender] = EmptyData
                /\ pc'[lastEv'.sender] = "idle"
                /\ users' = users /\ players' = players) ]_vars

\* C11 witness: cancel_operation was pressed and handled in the last state of
\* the add-player flow, and the conversation is idle with empty scratch data
C11_Witness ==
    /\ lastEv.handler = "_cancel_operation"
    /\ lastEv.outcome = "invoked"
    /\ lastEv.from = waiting_for_player_games
    /\ state[lastEv.sender] = None
    /\ data[lastEv.sender] = EmptyData

\* the last event was handled in conversation c and moved it into a waiting
\* state other than the one it was in
EnteredState(c) ==
    /\ lastEv.sender = c
    /\ lastEv.kind \in {"message", "callback"}
    /\ lastEv.outcome = "invoked"
    /\ pc[c] = "idle"
    /\ state[c] # None
    /\ state[c] # lastEv.from

\* button p, pressed now in conversation c, is a cancel/back button that a
\* registered handler takes and that leaves the conversation idle
CancelExit(c, p) ==
    LET h == CallbackHandler(p)
        eff == HandlerEffect(h, c, Cb(p), TRUE, TRUE)
    IN  /\ p[1] \in {"cancel", "back"}
        /\ h # "none"
        /\ eff.st = None
        /\ eff.pc = "idle"

\* C12: every waiting state has a cancel exit: the keyboard rendered when a
\* handler moves a conversation into a waiting state holds a cancel/back
\* button whose payload a registered handler matches and whose press leaves
\* the conversation idle.
C12_EveryStateHasCancelExit ==
    \A c \in Senders :
        EnteredState(c)
            => LET kb == EntryKeyboard(lastEv.handler, data[c]) IN
               \E i \in DOMAIN kb : CancelExit(c, kb[i])

\* the position of a tier in the order beginner < intermediate < advanced < expert
TierIndex(r) ==
    CASE r = BEGINNER -> 0 [] r = INTERMEDIATE -> 1 [] r = ADVANCED -> 2 [] r = EXPERT -> 3

\* the tier the boundaries 25 / 50 / 75 give games-played value g
TierOfGames(g) ==
    IF g < 25 THEN BEGINNER
    ELSE IF g < 50 THEN INTERMEDIATE
    ELSE IF g < 75 THEN ADVANCED
    ELSE EXPERT

\* C13: for every games-played value g >= 0 entered, the derived level is
\* g div 5 and the derived tier is beginner below 25, intermediate from 25,
\* advanced from 50 and expert from 75; no smaller value gives a higher level
\* or tier (both functions are monotonic non-decreasing).
C13_LevelAndTierOfGames ==
    \A c \in Senders :
        ctx[c].h = "process_player_games_input"
            => LET g == ctx[c].games IN
               /\ g >= 0
               /\ ctx[c].level = g \div 5
               /\ ctx[c].rank = TierOfGames(g)
               /\ \A k \in 0 .. g :
                    /\ CalculateLevel(k) <= ctx[c].level
                    /\ TierIndex(CalculateRank(k)) <= TierIndex(ctx[c].rank)

\* C13 witness: 75 games were entered and the levels derived from it are 15
\* and expert
C13_Witness ==
    /\ ctx[1].h = "process_player_games_input"
    /\ ctx[1].games = 75
    /\ ctx[1].level = 15
    /\ ctx[1].rank = EXPERT

\* the last name the flow is to store for the name typed: the tokens after
\* the first, joined by single spaces
ExpectedLastName(text) ==
    CASE text = <<"Ann", "Lee">> -> "Lee"
      [] text = <<"Ann", "Lee", "Ray">> -> "Lee Ray"

C15_LevelsDerived ==
    (\A c \in Senders : pc[c] = "idle")
        => \A i \in DOMAIN players :
              /\ players[i].level = players[i].games_played \div 5
              /\ players[i].rank_player = TierOfGames(players[i].games_played)

\* the user id a confirm payload names: its last token
PayloadTarget(p) == IF Len(p) = 0 THEN 0 ELSE ParseInt(p[Len(p)]).val

\* the step just taken ended the confirm handler of conversation c
ConfirmEnded(c) ==
    /\ ctx[c].h = "confirm_delete_callback"
    /\ pc[c] # "idle"
    /\ pc'[c] = "idle"

\* C16: the delete-user flow completes in two steps: the confirm button
\* rendered by the selection step, pressed in waiting_for_delete_confirmation,
\* is dispatched to the confirm handler; and the confirm handler, run for a
\* stored user of role user, removes that user's record and leaves the
\* conversation idle.
C16_DeleteUserFlowCompletes ==
    [][ \A c \in Senders :
          /\ (/\ Delivered /\ lastEv'.sender = c
               /\ lastEv'.from = waiting_for_delete_confirmation
               /\ lastEv'.inp =
                     ConfirmationDeleteUserKeyboard(GetId(data[c], "delete_user_id"))[1])
                => (lastEv'.handler = "confirm_delete_callback" /\ pc'[c] = "cd_parse")
          /\ (/\ ConfirmEnded(c)
               /\ StoredRole(users, PayloadTarget(ctx[c].payload)) = USER)
                => /\ ~Registered(users', PayloadTarget(ctx[c].payload))
                   /\ state'[c] = None ]_vars

\* C17: a delete-user confirm whose target id is not (or no longer) in the
\* user table ends with the "not found" notice, the user table unchanged and
\* the conversation state cleared.
C17_StaleConfirmSaysNotFound ==
    [][ \A c \in Senders :
          (ConfirmEnded(c) /\ ~Registered(users, PayloadTarget(ctx[c].payload)))
              => /\ lastEv'.res = "error_user_not_found"
                 /\ users' = users
                 /\ state'[c] = None
                 /\ data'[c] = EmptyData ]_vars

\* C18: the delete-player confirm step re-validates that the target still
\* exists: a confirm for a player id that is not in the roster when the
\* deletion runs never ends with the delete-success outcome.
C18_ConfirmRevalidatesPlayer ==
    [][ \A c \in Senders :
          (/\ ctx[c].h = "confirm_delete_player_callback"
           /\ pc[c] = "dp_delete"
           /\ pc'[c] = "idle"
           /\ ~PlayerFound(players, ctx[c].target, TRUE))
              => lastEv'.res # SUCCESSFUL ]_vars

\* the ids the delete_user_<id> buttons of keyboard kb target
DeleteButtonIds(kb) ==
    { ParseInt(kb[i][3]).val : i \in { j \in DOMAIN kb : StartsWith(kb[j], <<"delete", "user">>) } }

\* the ids that have a record with role r
IdsWithRole(tbl, r) == { tbl[i].user_id : i \in { j \in DOMAIN tbl : tbl[j].role = r } }

LastEvent ==
    [kind |-> lastEv.kind, text |-> lastEv.inp, hasText |-> lastEv.inp # <<>>,
     data |-> lastEv.inp]

Refs(k, d) ==
    IF d[k].str THEN { j \in LocaleKeys : \E i \in DOMAIN d[k].toks :
                                            d[k].toks[i] = Placeholder(j) }
    ELSE {}

RECURSIVE RefClosure(_, _)
RefClosure(S, d) ==
    LET T == S \cup UNION { Refs(j, d) : j \in S }
    IN  IF T = S THEN S ELSE RefClosure(T, d)

\* k references itself, directly or through a chain of sibling keys
OnCycle(k, d) == k \in RefClosure(Refs(k, d), d)

\* k holds a template all of whose placeholders name sibling keys with
\* placeholder-free values
PlainTemplate(k, d) ==
    /\ d[k].str
    /\ HasPattern(d[k].toks)
    /\ \A i \in DOMAIN d[k].toks :
          IsPlaceholder(d[k].toks[i])
              => /\ NameOf(d[k].toks[i]) \in LocaleKeys
                 /\ ~HasPattern(d[NameOf(d[k].toks[i])].toks)

\* the template with each placeholder replaced by the text of the sibling's value
RECURSIVE Substituted(_, _)
Substituted(toks, d) ==
    IF toks = <<>> THEN <<>>
    ELSE IF IsPlaceholder(Head(toks))
         THEN d[NameOf(Head(toks))].toks \o Substituted(Tail(toks), d)
         ELSE <<Head(toks)>> \o Substituted(Tail(toks), d)

BuildEnded == locale.status \in {"done", "raised"}

\* C21: once a BaseLocaleModule is built, every key holding a template whose
\* placeholders all name siblings with placeholder-free values has as its
\* processed value the template with each placeholder replaced by that
\* sibling's value ("{a} and {b}" with a = "X", b = "Y" gives "X and Y").
C21_PlainTemplateExpanded ==
    (locale.impl = BaseLocaleModule /\ BuildEnded)
        => \A k \in LocaleKeys :
              PlainTemplate(k, locale.data)
                  => /\ locale.status = "done"
                     /\ locale.processed[k] =
                            StrValue(Substituted(locale.data[k].toks, locale.data))

\* C22: building a locale module never recurses without bound: the stack of
\* _expand_value calls never grows beyond one call per key of the module, and
\* the build never ends in the interpreter's RecursionError, whichever of the
\* two implementations builds it.
C22_ExpansionRecursionBounded ==
    /\ Len(locale.stack) <= Cardinality(LocaleKeys)
    /\ locale.err # "RecursionError"

\* C23: in a built BaseLocaleModule, every key on a reference cycle has as its
\* processed value the template text as loaded.
C23_CyclicTemplateUnexpanded ==
    (locale.impl = BaseLocaleModule /\ locale.status = "done")
        => \A k \in LocaleKeys :
              OnCycle(k, locale.data) => locale.processed[k] = locale.data[k]

\* C24: a success notice is rendered by role selection (add-user) or by games
\* entry (add-player) only if the record is actually stored: when the final
\* step of either flow answers SUCCESSFUL, the user table holds a row of the
\* target id, respectively the player table a row of the entered name; a
\* failed insert or update is answered with the failure notice.
C24_SuccessOnlyIfStored ==
    [][\A c \in Senders :
          /\ (pc[c] = "au_write" /\ pc'[c] = "idle" /\ lastEv'.res = SUCCESSFUL)
                => \E i \in DOMAIN users' : users'[i].user_id = ctx[c].target
          /\ (pc[c] = "ap_insert" /\ pc'[c] = "idle" /\ lastEv'.res = SUCCESSFUL)
                => \E i \in DOMAIN players' :
                      /\ players'[i].first_name = ctx[c].first_name
                      /\ players'[i].last_name = ctx[c].last_name]_vars

\* C25: no handler lets an exception escape: whatever the shape of the event
\* a handler is invoked for (a message without text in waiting_for_player_name,
\* waiting_for_player_nickname or waiting_for_player_games included), the
\* handler returns normally, having emitted a failure or re-prompt notice.
C25_NoExceptionEscapes ==
    (lastEv.kind \in {"message", "callback"} /\ lastEv.outcome = "invoked")
        => lastEv.res # "raised"

\* the scratch data of c lacks the key the final step of the event's handler
\* needs (the games count itself being valid)
SessionLost(c) ==
    \/ /\ lastEv'.handler = "process_role_callback"
       /\ GetId(data[c], "user_id") = 0
    \/ /\ lastEv'.handler = "process_player_games_input"
       /\ lastEv'.inp # <<>>
       /\ ParseGames(lastEv'.inp).ok
       /\ \/ Get(data[c], "player_first_name") = None
          \/ Get(data[c], "player_last_name") = None

C27_HandlersOfConversationSerial ==
    [][(Delivered /\ lastEv'.outcome = "invoked") => pc[lastEv'.sender] = "idle"]_vars

RepromptFor(st, inp) ==
    CASE st = waiting_for_player_name /\ Len(inp) < 2 -> "admin_player_name_format_error"
      [] st = waiting_for_player_photo /\ inp # <<>> -> "admin_player_photo_error"
      [] st = waiting_for_player_games /\ (inp = <<>> \/ ~ParseGames(inp).ok) ->
            "admin_player_games_format_error"
      [] OTHER -> "none"

\* C29: in waiting_for_player_name, waiting_for_player_photo and
\* waiting_for_player_games, a message that fails the state's validation (fewer
\* than two tokens; no image; not a non-negative integer) and gets past the
\* gate is answered with that state's re-prompt and leaves the conversation
\* state, the scratch data and the player table unchanged.
C29_InvalidInputReprompted ==
    [][(/\ Delivered
        /\ lastEv'.kind = "message"
        /\ lastEv'.outcome = "invoked"
        /\ RepromptFor(lastEv'.from, lastEv'.inp) # "none")
           => /\ lastEv'.res = RepromptFor(lastEv'.from, lastEv'.inp)
              /\ state' = state /\ data' = data /\ players' = players]_vars

\* what the optional steps do to conversation c on the event just handled
\* without any lookup failing; adminToo: /admin counts as a nickname text
OptionalStepAdvances(c, adminToo) ==
    /\ (/\ lastEv'.kind = "message"
        /\ lastEv'.from = waiting_for_player_nickname
        /\ lastEv'.inp # <<>>
        /\ (adminToo \/ lastEv'.inp[1] # "/admin"))
           => /\ state'[c] = waiting_for_player_photo
              /\ Get(data'[c], "player_nickname") = Join(lastEv'.inp)
    /\ lastEv'.handler = "skip_nickname_callback"
           => /\ state'[c] = waiting_for_player_photo
              /\ "player_nickname" \in DOMAIN data'[c]
              /\ data'[c]["player_nickname"] = None
    /\ (/\ lastEv'.kind = "message"
        /\ lastEv'.from = waiting_for_player_photo
        /\ lastEv'.inp = <<>>)
           => /\ state'[c] = waiting_for_player_games
              /\ Get(data'[c], "player_photo_file_id") = PhotoSizes[Len(PhotoSizes)]
    /\ lastEv'.handler = "skip_photo_callback"
           => /\ state'[c] = waiting_for_player_games
              /\ "player_photo_file_id" \in DOMAIN data'[c]
              /\ data'[c]["player_photo_file_id"] = None

Stashed(d, id, p) ==
    /\ GetId(d, "user_id") = id
    /\ Get(d, "username") = p.username
    /\ Get(d, "first_name") = p.first_name
    /\ Get(d, "last_name") = p.last_name

C32_RoleSelectionUpserts ==
    [][\A c \in Senders :
          (/\ lastEv'.sender = c
           /\ lastEv'.handler = "process_role_callback"
           /\ lastEv'.from = waiting_for_role
           /\ lastEv'.outcome \in {"invoked", "step"}
           /\ pc'[c] = "idle")
              => /\ state'[c] = None
                 /\ data'[c] = EmptyData
                 /\ pc[c] = "au_write"
                       => UserRows(users', ctx[c].target)
                            = <<UserRow(ctx[c].target, ctx[c].username, ctx[c].first_name,
                                        ctx[c].last_name, ctx[c].role)>>]_vars

\* conversation c holds a captured photo reference and the names of a player
PhotoCaptured(c) ==
    /\ Get(data[c], "player_photo_file_id") # None
    /\ Get(data[c], "player_first_name") # None
    /\ Get(data[c], "player_last_name") # None

C34_AddPlayerChainLinear ==
    [][\A c \in Senders :
          state'[c] # state[c]
             => /\ state'[c] = waiting_for_player_nickname
                      => state[c] = waiting_for_player_name
                /\ state'[c] = waiting_for_player_photo
                      => state[c] = waiting_for_player_nickname
                /\ state'[c] = waiting_for_player_games
                      => state[c] = waiting_for_player_photo]_vars

\* every value of d is a string whose placeholders all name sibling keys, and
\* no key references itself, directly or through siblings
AcyclicModule(d) ==
    \A k \in LocaleKeys :
        /\ d[k].str
        /\ \A i \in DOMAIN d[k].toks :
              IsPlaceholder(d[k].toks[i]) => NameOf(d[k].toks[i]) \in LocaleKeys
        /\ ~OnCycle(k, d)

\* the text with each placeholder replaced by the sibling's value, itself
\* expanded the same way (defined for the values of an acyclic module)
RECURSIVE FullyExpanded(_, _)
FullyExpanded(toks, d) ==
    IF toks = <<>> THEN <<>>
    ELSE IF IsPlaceholder(Head(toks))
         THEN FullyExpanded(d[NameOf(Head(toks))].toks, d) \o FullyExpanded(Tail(toks), d)
         ELSE <<Head(toks)>> \o FullyExpanded(Tail(toks), d)

\* C35: a BaseLocaleModule built from a module without reference cycles holds
\* every string fully expanded: each placeholder naming a sibling key is
\* replaced by that sibling's recursively expanded value, also when two
\* referenced siblings carry the same template text or reference a common
\* sibling.
C35_AcyclicFullyExpanded ==
    (locale.impl = BaseLocaleModule /\ BuildEnded /\ AcyclicModule(locale.data))
        => /\ locale.status = "done"
           /\ \A k \in LocaleKeys :
                 locale.processed[k] = StrValue(FullyExpanded(locale.data[k].toks, locale.data))

\* the placeholder of a name that is no key of the module: filled in by the
\* handlers at run time (str.format), not when the module is loaded
RuntimePlaceholder == Placeholder("z")

HasRuntimePlaceholder(v) == \E i \in DOMAIN v.toks : v.toks[i] = RuntimePlaceholder

\* C36: expanding a module of strings without reference cycles never raises,
\* under either implementation, and every value that carries a placeholder
\* naming no sibling key still carries it after the build, also when a sibling
\* key occurs in the same template.
C36_RuntimePlaceholdersKept ==
    (BuildEnded /\ \A k \in LocaleKeys : locale.data[k].str /\ ~OnCycle(k, locale.data))
        => /\ locale.status = "done"
           /\ \A k \in LocaleKeys :
                 HasRuntimePlaceholder(locale.data[k])
                     => HasRuntimePlaceholder(locale.processed[k])

\* C37: a conversation without an active state holds no scratch data: no
\* handler, on any of its paths, leaves scratch keys stored while the FSM
\* state is unset.
C37_IdleHasNoScratchData ==
    \A c \in Senders : state[c] = None => data[c] = EmptyData

\* the payloads a selection makes a user of: role_user alone (whole), or
\* every payload whose second "_"-separated token is user
UserPayload(p, whole) ==
    IF whole THEN p = <<"role", "user">> ELSE SplitAt(p, 1) = "user"

\* what a role selection does in conversation c, the role being USER for
\* the payloads UserPayload holds of and ADMIN for every other one: the
\* handler runs in any state, add_user is called with that role, and the
\* record of the target carries it once add_user has returned
RoleSelection(c, whole) ==
    /\ (/\ Delivered /\ lastEv'.sender = c /\ lastEv'.kind = "callback"
        /\ StartsWith(lastEv'.inp, <<"role">>))
           => /\ lastEv'.handler = "process_role_callback"
              /\ lastEv'.outcome = "invoked"
              /\ GetId(data[c], "user_id") # 0
                    => /\ pc'[c] = "au_exists"
                       /\ ctx'[c].target = GetId(data[c], "user_id")
                       /\ ctx'[c].role = IF UserPayload(lastEv'.inp, whole) THEN USER ELSE ADMIN
    /\ (pc[c] = "au_write" /\ pc'[c] = "idle")
           => /\ Registered(users', ctx[c].target)
              /\ \A i \in DOMAIN users' :
                    users'[i].user_id = ctx[c].target => users'[i].role = ctx[c].role

\* C38: the role a selection stores is user exactly when the payload is
\* role_user, and admin for every other payload beginning with role_, unknown
\* role tokens included; the handler runs for such a payload in any
\* conversation state.
C38_RoleOfPayload ==
    [][\A c \in Senders : RoleSelection(c, TRUE)]_vars

\* C38 as amended: the role stored is user exactly when the second
\* "_"-separated token of the payload is user (role_user, and also
\* role_user_x), and admin for every other payload beginning with role_.
C38_RoleOfSecondToken ==
    [][\A c \in Senders : RoleSelection(c, FALSE)]_vars

\* C38 witness: a payload with an unknown role token, pressed outside
\* waiting_for_role, has add_user called with role admin
C38_Witness ==
    /\ lastEv.inp = <<"role", "moderator">>
    /\ lastEv.from = waiting_for_player_name
    /\ lastEv.handler = "process_role_callback"
    /\ pc[1] = "au_exists"
    /\ ctx[1].target = 3
    /\ ctx[1].role = ADMIN

C40_SenderlessBypassesGate ==
    (lastEv.kind = "gate" /\ lastEv.sender = 0)
        => /\ lastEv.outcome = "invoked"
           /\ lastEv.role = None

\* C40 witness: a sender-less event reached a handler that declares the admin
\* role, with the whitelist lookup out of order
C40_Witness ==
    /\ lastEv.kind = "gate"
    /\ lastEv.sender = 0
    /\ lastEv.flag = ADMIN
    /\ lastEv.fault = "exists"
    /\ lastEv.outcome = "invoked"

====
